---- MODULE Spec2Model ----
(***************************************************************************)
(* State-machine model of the Typefully thread publisher:                  *)
(*   - the entry orchestrators (__main__ of docker_run.py, script.py and   *)
(*     script_n_gdrive.py),                                                *)
(*   - the Authentication Flow (perform_login),                            *)
(*   - the Thread Publisher (automate_typefully) with its pre-flight scan, *)
(*   - the retry wrapper (click_with_retry),                               *)
(*   - the bracket split of a post string into body and media tag.         *)
(* Strings are sequences of one-character strings, so that split, replace  *)
(* and strip are computed as Python computes them.                         *)
(***************************************************************************)
EXTENDS Integers, Sequences, FiniteSets, TLC

VARIABLES
    variant,      \* which script of the repository runs
    posts,        \* the hard-coded post list of __main__
    assets,       \* file names present in the Google Drive folder
    folderUrl,    \* GOOGLE_DRIVE_FOLDER_URL: "unset", "invalid" or "valid"
    sessionFile,  \* content of AUTH_FILE on disk, NoSession when absent
    scratch,      \* files present in the downloads directory
    active,       \* the orchestrator processes that may run
    proc,         \* per process: control point and run-local state
    split         \* state of the stand-alone split computation (SpecSplit)

vars == <<variant, posts, assets, folderUrl, sessionFile, scratch, active, proc, split>>

----------------------------------------------------------------------------
(* Bounds of the model *)

\* longest post list drawn in Init
MaxPosts == 3

\* longest post string the split computation is applied to
MaxLen == 5

----------------------------------------------------------------------------
(* Strings *)

\* the characters post strings are built from; " " is the only whitespace
Chars == {"a", "b", " ", "[", "]"}

RECURSIVE lstrip(_)
\* str.lstrip(): drop leading whitespace
lstrip(s) ==
    IF s # <<>> /\ Head(s) = " " THEN lstrip(Tail(s)) ELSE s

RECURSIVE rstrip(_)
\* str.rstrip(): drop trailing whitespace
rstrip(s) ==
    IF s # <<>> /\ s[Len(s)] = " " THEN rstrip(SubSeq(s, 1, Len(s) - 1)) ELSE s

\* str.strip()
strip(s) == rstrip(lstrip(s))

\* str.replace(c, ''): every occurrence of character c removed
replace(s, c) == SelectSeq(s, LAMBDA ch : ch # c)

RECURSIVE str_split(_, _)
\* str.split(sep) for a one-character separator: the list of the pieces
str_split(s, sep) ==
    IF \A k \in 1..Len(s) : s[k] # sep
    THEN <<s>>
    ELSE LET k == CHOOSE j \in 1..Len(s) :
                      s[j] = sep /\ \A h \in 1..(j - 1) : s[h] # sep
         IN  <<SubSeq(s, 1, k - 1)>> \o str_split(SubSeq(s, k + 1, Len(s)), sep)

\* split_result = post_content.split('[')
split_result(post_content) == str_split(post_content, "[")

\* the test  len(split_result) > 1  of the pre-flight scan
PreflightHasTag(post_content) == Len(split_result(post_content)) > 1

\* (mutant) the pre-flight scan forgets .strip()
PreflightTag_nostrip(post_content) == replace(split_result(post_content)[2], "]")

\* image_tag of the pre-flight scan
PreflightTag(post_content) == strip(replace(split_result(post_content)[2], "]"))

\* the test  len(split_result) > 1  of the per-post loop
LoopHasTag(post_content) == Len(split_result(post_content)) > 1

\* (mutant) the loop takes the text after '[' as it is
LoopTag_raw(post_content) == split_result(post_content)[2]

\* image_tag of the per-post loop
LoopTag(post_content) == strip(replace(split_result(post_content)[2], "]"))

\* text_to_type of the per-post loop
text_to_type(post_content) ==
    IF Len(split_result(post_content)) > 1
    THEN strip(split_result(post_content)[1])
    ELSE post_content

----------------------------------------------------------------------------
(* Program constants and the inputs of a run *)

\* (mutant) the wrapper allows a fourth attempt
stop_max_attempt_four == 3 + 1

\* @retry(stop_max_attempt_number=3, ...)
stop_max_attempt_number == 3

\* @retry(..., wait_fixed=2000): milliseconds slept between two attempts
wait_fixed == 2000

\* the three scripts that have an entry orchestrator
Variants == {"docker_run", "script_n_gdrive", "script"}

\* the scripts whose publisher uses the Google Drive asset store
UsesAssetStore(v) == v \in {"docker_run", "script_n_gdrive"}

\* the script whose clicks go through click_with_retry
UsesRetry(v) == v = "docker_run"

\* AUTH_FILE does not exist
NoSession == "none"

\* the storage states a completed login can leave in the browser context
Sessions == {"s1"}

\* the post strings __main__ may hold: "A [x]", "B", "C [y]"
PostPool == { <<"A", " ", "[", "x", "]">>, <<"B">>, <<"C", " ", "[", "y", "]">> }

\* the file names the post strings can name
Tags == { <<"x">>, <<"y">> }

\* the non-empty post lists of at most MaxPosts posts
PostLists == UNION { [1..n -> PostPool] : n \in 1..MaxPosts }

\* one entry of a run's trace: a completed step, a raised exception, a
\* screenshot or a log line of one of the flows
Ev(flow, op, what, post, txt) ==
    [flow |-> flow, op |-> op, what |-> what, post |-> post, txt |-> txt]

\* run-local state of an orchestrator process before it starts; sessionAtStart
\* and scratchAtStart remember what the disk held when the run began
IdleProc ==
    [pc |-> "idle", i |-> 0, attempt |-> 1, slept |-> 0, ctx |-> NoSession, qerr |-> FALSE,
     events |-> <<>>, exc |-> "none", reason |-> "", exit |-> -1,
     sessionAtStart |-> NoSession, scratchAtStart |-> {}]

\* r with event e appended to its trace
Log(r, e) == [r EXCEPT !.events = Append(@, e)]

\* r with flow step `what` recorded as completed and control moved to `label`
Completed(r, flow, what, post, txt, label) ==
    [Log(r, Ev(flow, "step", what, post, txt)) EXCEPT !.pc = label, !.attempt = 1, !.slept = 0]

\* (mutant) __main__ only reports an exception and ends normally
ExitStatus_reports(v, exc) == IF exc = "SystemExit" THEN 1 ELSE 0

\* the exit status of the process when exception class exc ends __main__
ExitStatus(v, exc) ==
    CASE exc = "none"       -> 0
      [] exc = "SystemExit" -> 1
      [] v = "docker_run"   -> 1
      [] OTHER              -> 0

\* the end of __main__: the exception (if any) reaches the except clauses and
\* the finally clause logs "Script finished."
Terminate(r, exc, reason) ==
    [Log(r, Ev("main", "log", "Script finished.", -1, <<>>))
       EXCEPT !.pc = "done", !.exc = exc, !.reason = reason,
              !.exit = ExitStatus(variant, exc)]

\* an exception of kind `kind` raised by step `what` of flow `flow`
Raised(r, flow, what, kind) ==
    Log(r, Ev(flow, IF kind = "timeout" THEN "raise_timeout" ELSE "raise_error",
              what, r.i, <<>>))

\* one Playwright call, made through click_with_retry when `wrapped`: it
\* succeeds, or fails and is attempted again, or its last attempt raises
ui_action(p, wrapped, kinds, ok, onTimeout, onError) ==
    \/ proc' = [proc EXCEPT ![p] = ok]
    \/ /\ wrapped
       /\ proc[p].attempt < stop_max_attempt_number
       /\ proc' = [proc EXCEPT ![p].attempt = @ + 1, ![p].slept = @ + wait_fixed]
    \/ /\ wrapped => proc[p].attempt >= stop_max_attempt_number
       /\ \E kind \in kinds :
            proc' = [proc EXCEPT ![p] = IF kind = "timeout" THEN onTimeout ELSE onError]

----------------------------------------------------------------------------
(* The entry orchestrator: __main__ *)

\* what os.getenv("GOOGLE_DRIVE_FOLDER_URL") can give a run: nothing, a URL
\* with no folder id in it, or the URL of the folder
FolderUrls == {"unset", "invalid", "valid"}

\* a process starts: python runs the script from its first line and reads
\* the environment of this run
StartRun(p) ==
    /\ proc[p].pc \in {"idle", "done"}
    /\ folderUrl' \in (IF UsesAssetStore(variant) THEN FolderUrls ELSE {"unset"})
    /\ proc' = [proc EXCEPT ![p] =
                   [IdleProc EXCEPT !.pc = "m_folder_url",
                                    !.sessionAtStart = sessionFile,
                                    !.scratchAtStart = scratch]]
    /\ UNCHANGED <<variant, posts, assets, sessionFile, scratch, active, split>>

\* where __main__ goes once the folder URL was read
AfterFolderUrl(r, v, url) ==
    CASE v = "script"      -> [r EXCEPT !.pc = "m_isfile"]
      [] url # "unset"     -> [r EXCEPT !.pc = "m_isfile"]
      [] v = "docker_run"  -> Terminate(r, "LoginError", "FolderUrlMissing")
      [] OTHER             -> Terminate(r, "SystemExit", "FolderUrlMissing")

\* if not folder_url: ...
m_folder_url(p) ==
    /\ proc[p].pc = "m_folder_url"
    /\ proc' = [proc EXCEPT ![p] = AfterFolderUrl(proc[p], variant, folderUrl)]
    /\ UNCHANGED <<variant, posts, assets, folderUrl, sessionFile, scratch, active, split>>

\* the first control point of automate_typefully
PublisherEntry(v) == IF UsesAssetStore(v) THEN "p_drive" ELSE "p_open"

\* __main__ calls one of the two flows
Call(r, flow, label) ==
    [Log(r, Ev("main", "call", flow, -1, <<>>)) EXCEPT !.pc = label]

\* (mutant) __main__ logs in whatever the session store holds
AfterIsFile_always_login(r, v, file) == Call(r, "perform_login", "l_creds")

\* where __main__ goes on the first  os.path.isfile(AUTH_FILE)
AfterIsFile(r, v, file) ==
    IF file # NoSession
    THEN Call(r, "automate_typefully", PublisherEntry(v))
    ELSE Call(r, "perform_login", "l_creds")

\* if os.path.isfile(AUTH_FILE): automate_typefully(...) else: perform_login(...)
m_isfile(p) ==
    /\ proc[p].pc = "m_isfile"
    /\ proc' = [proc EXCEPT ![p] = AfterIsFile(proc[p], variant, sessionFile)]
    /\ UNCHANGED <<variant, posts, assets, folderUrl, sessionFile, scratch, active, split>>

\* where __main__ goes when perform_login has returned normally
AfterLogin(r, v) ==
    IF v = "docker_run"
    THEN [r EXCEPT !.pc = "m_recheck", !.attempt = 1, !.slept = 0]
    ELSE Terminate(r, "none", "LoginDone")

\* (mutant) __main__ publishes after a login without looking at the file
AfterRecheck_always_publish(r, v, file) ==
    Call(r, "automate_typefully", PublisherEntry(v))

\* where docker_run's __main__ goes on the second  os.path.isfile(AUTH_FILE)
AfterRecheck(r, v, file) ==
    IF file # NoSession
    THEN Call(r, "automate_typefully", PublisherEntry(v))
    ELSE Terminate(r, "LoginError", "AuthFileNotCreated")

\* docker_run: the isfile test that follows perform_login
m_recheck(p) ==
    /\ proc[p].pc = "m_recheck"
    /\ proc' = [proc EXCEPT ![p] = AfterRecheck(proc[p], variant, sessionFile)]
    /\ UNCHANGED <<variant, posts, assets, folderUrl, sessionFile, scratch, active, split>>

----------------------------------------------------------------------------
(* The Authentication Flow: perform_login *)

\* (mutant) the first failure of a login step starts the flow again
LoginFail_restart_once(r, what, kind) ==
    IF \A k \in 1..Len(r.events) : r.events[k].op \notin {"raise_timeout", "raise_error"}
    THEN [Raised(r, "auth", what, kind) EXCEPT !.pc = "l_launch", !.attempt = 1,
                                                !.slept = 0]
    ELSE Terminate(Raised(r, "auth", what, kind), "Exception", what)

\* an exception inside perform_login ends the run: docker_run turns it into a
\* LoginError, the other scripts let it reach  except Exception  of __main__
LoginFail(r, what, kind) ==
    Terminate(Raised(r, "auth", what, kind),
              IF variant = "docker_run" THEN "LoginError" ELSE "Exception", what)

\* a step of perform_login that either completes or ends the flow
login_step(p, what, wrapped, next) ==
    /\ ui_action(p, wrapped, {"error"},
                 Completed(proc[p], "auth", what, -1, <<>>, next),
                 LoginFail(proc[p], what, "timeout"),
                 LoginFail(proc[p], what, "error"))
    /\ UNCHANGED <<variant, posts, assets, folderUrl, sessionFile, scratch, active, split>>

\* X_USERNAME / X_PASSWORD are read; without them the flow does not start
l_creds(p) ==
    /\ proc[p].pc = "l_creds"
    /\ \/ proc' = [proc EXCEPT ![p].pc = "l_launch"]
       \/ proc' = [proc EXCEPT ![p] =
              Terminate(proc[p],
                        IF variant = "docker_run" THEN "LoginError" ELSE "SystemExit",
                        "CredentialsMissing")]
    /\ UNCHANGED <<variant, posts, assets, folderUrl, sessionFile, scratch, active, split>>

\* launch, new_context(), new_page(), page.goto("https://typefully.com/")
l_launch(p) ==
    /\ proc[p].pc = "l_launch"
    /\ login_step(p, "goto", FALSE, "l_login_visible")

\* login_button.wait_for(state="visible", timeout=15000)
l_login_visible(p) ==
    /\ proc[p].pc = "l_login_visible"
    /\ login_step(p, "login_visible", FALSE, "l_click_login")

\* with page.expect_popup(): click 'Log in with X'
l_click_login(p) ==
    /\ proc[p].pc = "l_click_login"
    /\ login_step(p, "click_login", UsesRetry(variant), "l_popup")

\* popup_info.value; popup_page.wait_for_load_state()
l_popup(p) ==
    /\ proc[p].pc = "l_popup"
    /\ login_step(p, "popup", FALSE, "l_allow")

\* click "#allow"
l_allow(p) ==
    /\ proc[p].pc = "l_allow"
    /\ login_step(p, "allow", UsesRetry(variant), "l_fill_user")

\* fill "Phone, email, or username"
l_fill_user(p) ==
    /\ proc[p].pc = "l_fill_user"
    /\ login_step(p, "fill_user", FALSE, "l_next")

\* click "Next"
l_next(p) ==
    /\ proc[p].pc = "l_next"
    /\ login_step(p, "next", UsesRetry(variant), "l_opt_fill")

\* what  except TimeoutError: pass  makes of an exception raised inside the
\* optional-verification try block by step `what`
OptionalHandler(r, what, kind) ==
    IF kind = "timeout"
    THEN [Raised(r, "auth", what, kind) EXCEPT !.pc = "l_fill_password", !.attempt = 1,
                                             !.slept = 0]
    ELSE LoginFail(r, what, kind)

\* try: get_by_test_id("ocfEnterTextTextInput").fill(X_USERNAME, timeout=5000)
l_opt_fill(p) ==
    /\ proc[p].pc = "l_opt_fill"
    /\ ui_action(p, FALSE, {"timeout", "error"},
                 Completed(proc[p], "auth", "opt_fill", -1, <<>>, "l_opt_next"),
                 OptionalHandler(proc[p], "opt_fill", "timeout"),
                 OptionalHandler(proc[p], "opt_fill", "error"))
    /\ UNCHANGED <<variant, posts, assets, folderUrl, sessionFile, scratch, active, split>>

\* (still inside the try block) click "Next"
l_opt_next(p) ==
    /\ proc[p].pc = "l_opt_next"
    /\ ui_action(p, UsesRetry(variant), {"timeout", "error"},
                 Completed(proc[p], "auth", "opt_next", -1, <<>>, "l_fill_password"),
                 OptionalHandler(proc[p], "opt_next", "timeout"),
                 OptionalHandler(proc[p], "opt_next", "error"))
    /\ UNCHANGED <<variant, posts, assets, folderUrl, sessionFile, scratch, active, split>>

\* fill 'input[name="password"]'
l_fill_password(p) ==
    /\ proc[p].pc = "l_fill_password"
    /\ login_step(p, "fill_password", FALSE, "l_login_button")

\* click "LoginForm_Login_Button"
l_login_button(p) ==
    /\ proc[p].pc = "l_login_button"
    /\ login_step(p, "login_button", UsesRetry(variant), "l_authorize")

\* (mutant) the flow saves the session right after the 'Authorize app' click
l_authorize_then_persist(p) ==
    /\ proc[p].pc = "l_authorize"
    /\ login_step(p, "authorize", UsesRetry(variant), "l_storage_state")

\* click "Authorize app"
l_authorize(p) ==
    /\ proc[p].pc = "l_authorize"
    /\ login_step(p, "authorize", UsesRetry(variant), "l_popup_close")

\* popup_page.wait_for_event("close", timeout=60000): the host page now holds
\* the storage state of a logged-in session
l_popup_close(p) ==
    /\ proc[p].pc = "l_popup_close"
    /\ \E s \in Sessions :
         ui_action(p, FALSE, {"timeout"},
                   [Completed(proc[p], "auth", "popup_closed", -1, <<>>, "l_settle")
                      EXCEPT !.ctx = s],
                   LoginFail(proc[p], "popup_closed", "timeout"),
                   LoginFail(proc[p], "popup_closed", "error"))
    /\ UNCHANGED <<variant, posts, assets, folderUrl, sessionFile, scratch, active, split>>

\* page.wait_for_timeout(3000)
l_settle(p) ==
    /\ proc[p].pc = "l_settle"
    /\ proc' = [proc EXCEPT ![p] =
                   Completed(proc[p], "auth", "settle", -1, <<>>, "l_storage_state")]
    /\ UNCHANGED <<variant, posts, assets, folderUrl, sessionFile, scratch, active, split>>

\* (mutant) the session path is written under a lock no second writer gets
l_storage_state_locked(p) ==
    /\ proc[p].pc = "l_storage_state"
    /\ \A q \in active \ {p} :
           \A k \in 1..Len(proc[q].events) : proc[q].events[k].what # "storage_state"
    /\ sessionFile' = proc[p].ctx
    /\ proc' = [proc EXCEPT ![p] =
           Completed(proc[p], "auth", "storage_state", -1, <<>>, "l_close")]
    /\ UNCHANGED <<variant, posts, assets, folderUrl, scratch, active, split>>

\* page.context.storage_state(path=auth_file_path): the file is written, or
\* the call raises, or it returns and the file is not there afterwards
l_storage_state(p) ==
    /\ proc[p].pc = "l_storage_state"
    /\ \/ /\ sessionFile' = proc[p].ctx
          /\ proc' = [proc EXCEPT ![p] =
                Completed(proc[p], "auth", "storage_state", -1, <<>>, "l_close")]
       \/ /\ sessionFile' = sessionFile
          /\ proc' = [proc EXCEPT ![p] =
                Completed(proc[p], "auth", "storage_state_lost", -1, <<>>, "l_close")]
       \/ /\ sessionFile' = sessionFile
          /\ proc' = [proc EXCEPT ![p] = LoginFail(proc[p], "storage_state", "error")]
    /\ UNCHANGED <<variant, posts, assets, folderUrl, scratch, active, split>>

\* browser.close() and the return to __main__
l_close(p) ==
    /\ proc[p].pc = "l_close"
    /\ ui_action(p, FALSE, {"error"},
                 AfterLogin(Log(proc[p], Ev("auth", "step", "close", -1, <<>>)), variant),
                 LoginFail(proc[p], "close", "timeout"),
                 LoginFail(proc[p], "close", "error"))
    /\ UNCHANGED <<variant, posts, assets, folderUrl, sessionFile, scratch, active, split>>

----------------------------------------------------------------------------
(* The asset store: Google Drive *)

\* (mutant) the existence check reports every file as present
check_exists_always(url, filename, qerr) == TRUE

\* (mutant) the existence check reports every file as absent
check_exists_never(url, filename, qerr) == FALSE

\* (mutant) the existence check goes on after a query that raised
check_exists_ignores_error(url, filename, qerr) ==
    /\ url = "valid"
    /\ filename \in assets

\* check_gdrive_file_exists: False for a folder URL without folder id, for a
\* query that raises and for a name the folder does not hold
check_gdrive_file_exists(url, filename, qerr) ==
    /\ url = "valid"
    /\ ~qerr
    /\ filename \in assets

\* download_gdrive_file can return True only where the file is found
download_possible(url, filename, qerr) ==
    /\ url = "valid"
    /\ ~qerr
    /\ filename \in assets

----------------------------------------------------------------------------
(* The Thread Publisher: automate_typefully *)

\* sys.exit(1) inside automate_typefully
PublishExit(r, reason) == Terminate(r, "SystemExit", reason)

\* an exception that leaves automate_typefully and reaches __main__
PublishFail(r, what, kind) ==
    Terminate(Raised(r, "publish", what, kind), "Exception", what)

\* page.screenshot(path=f".../error_<stage>_#{i + 1}.png")
Screenshot(r, stage) == Log(r, Ev("publish", "screenshot", stage, r.i + 1, <<>>))

\* (mutant) the media handler re-raises without a screenshot
MediaFail_noshot(r, what, kind) == PublishFail(r, what, kind)

\* except Exception: screenshot error_media_#, raise
MediaFail(r, what, kind) ==
    Terminate(Screenshot(Raised(r, "publish", what, kind), "media"), "Exception", what)

\* except Exception: screenshot error_typing_#, raise
TypingFail(r, what, kind) ==
    Terminate(Screenshot(Raised(r, "publish", what, kind), "typing"), "Exception", what)

\* (mutant) the loop goes to the text of every post at once
PostEntry_nomedia(v, post_content) == "p_text_click"

\* the control point at which the loop body of post i begins
PostEntry(v, post_content) ==
    IF LoopHasTag(post_content)
    THEN (IF UsesAssetStore(v) THEN "p_download" ELSE "p_hover")
    ELSE "p_text_click"

\* drive_service = get_drive_service(), sys.exit(1) when it raises
p_drive(p) ==
    /\ proc[p].pc = "p_drive"
    /\ \/ \E q \in BOOLEAN :
            proc' = [proc EXCEPT ![p] =
                [Completed(proc[p], "publish", "drive_service", -1, <<>>, "p_preflight")
                   EXCEPT !.qerr = q, !.i = 0]]
       \/ proc' = [proc EXCEPT ![p] = PublishExit(proc[p], "DriveInit")]
    /\ UNCHANGED <<variant, posts, assets, folderUrl, sessionFile, scratch, active, split>>

\* the pre-flight scan applied to post i of n: the next post, the end of the
\* scan, or sys.exit(1) for an image the store does not report
Preflight(r, post_content, n, url) ==
    IF PreflightHasTag(post_content)
       /\ ~check_gdrive_file_exists(url, PreflightTag(post_content), r.qerr)
    THEN PublishExit(Log(r, Ev("publish", "missing", "preflight", r.i,
                               PreflightTag(post_content))),
                     "AssetMissing")
    ELSE LET q == IF PreflightHasTag(post_content)
                  THEN Log(r, Ev("publish", "exists", "preflight", r.i,
                                 PreflightTag(post_content)))
                  ELSE r
         IN  IF r.i + 1 < n
             THEN [q EXCEPT !.i = r.i + 1]
             ELSE [q EXCEPT !.i = 0, !.pc = "p_open"]

\* for post_content in posts: ... check_gdrive_file_exists ...
p_preflight(p) ==
    /\ proc[p].pc = "p_preflight"
    /\ proc' = [proc EXCEPT ![p] =
                   Preflight(proc[p], posts[proc[p].i + 1], Len(posts), folderUrl)]
    /\ UNCHANGED <<variant, posts, assets, folderUrl, sessionFile, scratch, active, split>>

\* a step of automate_typefully outside the two try blocks
publish_step(p, what, wrapped, txt, next) ==
    /\ ui_action(p, wrapped, {"error"},
                 Completed(proc[p], "publish", what, proc[p].i, txt, next),
                 PublishFail(proc[p], what, "timeout"),
                 PublishFail(proc[p], what, "error"))
    /\ UNCHANGED <<variant, posts, assets, folderUrl, sessionFile, scratch, active, split>>

\* the storage state new_context(storage_state=AUTH_FILE) starts with
LoadedSession(file) == file

\* launch, new_context(storage_state=...), new_page, goto, wait, makedirs
p_open(p) ==
    /\ proc[p].pc = "p_open"
    /\ \/ /\ sessionFile # NoSession
          /\ proc' = [proc EXCEPT ![p] =
                [Completed(proc[p], "publish", "open", -1, <<>>, "p_new_draft")
                   EXCEPT !.ctx = LoadedSession(sessionFile), !.i = 0]]
       \/ proc' = [proc EXCEPT ![p] = PublishFail(proc[p], "open", "error")]
    /\ UNCHANGED <<variant, posts, assets, folderUrl, sessionFile, scratch, active, split>>

\* click "New draft"
p_new_draft(p) ==
    /\ proc[p].pc = "p_new_draft"
    /\ publish_step(p, "new_draft", UsesRetry(variant), <<>>, "p_container0")

\* wait_for_selector('div[data-atom-index="0"]'), then the settle delay
p_container0(p) ==
    /\ proc[p].pc = "p_container0"
    /\ publish_step(p, "container", FALSE, <<>>, PostEntry(variant, posts[1]))

\* download_gdrive_file(...): True with the file written, or False (with or
\* without a partly written file), a screenshot and sys.exit(1)
p_download(p) ==
    /\ proc[p].pc = "p_download"
    /\ LET tag == LoopTag(posts[proc[p].i + 1])
       IN  \/ /\ download_possible(folderUrl, tag, proc[p].qerr)
              /\ scratch' = scratch \cup {tag}
              /\ proc' = [proc EXCEPT ![p] =
                    Completed(proc[p], "publish", "download", proc[p].i, tag, "p_hover")]
           \/ /\ \/ scratch' = scratch
                 \/ /\ download_possible(folderUrl, tag, proc[p].qerr)
                    /\ scratch' = scratch \cup {tag}
              /\ proc' = [proc EXCEPT ![p] =
                    PublishExit(Screenshot(Log(proc[p],
                        Ev("publish", "download_failed", "download", proc[p].i, tag)),
                        "download"), "DownloadFailed")]
    /\ UNCHANGED <<variant, posts, assets, folderUrl, sessionFile, active, split>>

\* (mutant) a step inside the media try block that empties the downloads
\* directory whatever its outcome
media_step_cleanup(p, what, wrapped, txt, next) ==
    /\ ui_action(p, wrapped, {"error"},
                 Completed(proc[p], "publish", what, proc[p].i, txt, next),
                 MediaFail(proc[p], what, "timeout"),
                 MediaFail(proc[p], what, "error"))
    /\ scratch' = {}
    /\ UNCHANGED <<variant, posts, assets, folderUrl, sessionFile, active, split>>

\* a step inside the media try block
media_step(p, what, wrapped, txt, next) ==
    /\ ui_action(p, wrapped, {"error"},
                 Completed(proc[p], "publish", what, proc[p].i, txt, next),
                 MediaFail(proc[p], what, "timeout"),
                 MediaFail(proc[p], what, "error"))
    /\ UNCHANGED <<variant, posts, assets, folderUrl, sessionFile, scratch, active, split>>

\* tweet_container.hover(); media_button_icon.wait_for(state="visible")
p_hover(p) ==
    /\ proc[p].pc = "p_hover"
    /\ media_step(p, "hover", FALSE, <<>>, "p_media_click")

\* click the media button
p_media_click(p) ==
    /\ proc[p].pc = "p_media_click"
    /\ media_step(p, "media_click", UsesRetry(variant), <<>>, "p_menu_click")

\* click "Upload images or video"
p_menu_click(p) ==
    /\ proc[p].pc = "p_menu_click"
    /\ media_step(p, "menu_click", UsesRetry(variant), <<>>, "p_set_files")

\* fc_info.value; file_chooser.set_files(image_path): the file must be there
p_set_files(p) ==
    /\ proc[p].pc = "p_set_files"
    /\ LET tag == LoopTag(posts[proc[p].i + 1])
       IN  \/ /\ UsesAssetStore(variant) => tag \in scratch
              /\ proc' = [proc EXCEPT ![p] =
                    Completed(proc[p], "publish", "set_files", proc[p].i, tag, "p_preview")]
           \/ proc' = [proc EXCEPT ![p] = MediaFail(proc[p], "set_files", "error")]
    /\ UNCHANGED <<variant, posts, assets, folderUrl, sessionFile, scratch, active, split>>

\* (mutant) the loop goes back to the hover once the preview is visible
AfterPreview_again(v) == "p_hover"

\* (mutant) the loop goes to the text without deleting the file
AfterPreview_keep(v) == "p_text_click"

\* where the loop goes once the uploaded-image preview is visible
AfterPreview(v) == IF UsesAssetStore(v) THEN "p_remove" ELSE "p_text_click"

\* uploaded_image_preview.wait_for(state="visible", timeout=20000)
p_preview(p) ==
    /\ proc[p].pc = "p_preview"
    /\ media_step(p, "preview", FALSE, <<>>, AfterPreview(variant))

\* (mutant) the downloaded file is never deleted
Removed_keeps(files, tag) == files

\* the downloads directory after  os.remove(image_path)
Removed(files, tag) == files \ {tag}

\* os.remove(image_path), which raises when the file is not there
p_remove(p) ==
    /\ proc[p].pc = "p_remove"
    /\ LET tag == LoopTag(posts[proc[p].i + 1])
       IN  IF tag \in scratch
           THEN /\ scratch' = Removed(scratch, tag)
                /\ proc' = [proc EXCEPT ![p] =
                      Completed(proc[p], "publish", "remove", proc[p].i, tag, "p_text_click")]
           ELSE /\ scratch' = scratch
                /\ proc' = [proc EXCEPT ![p] = MediaFail(proc[p], "remove", "error")]
    /\ UNCHANGED <<variant, posts, assets, folderUrl, sessionFile, active, split>>

\* a step inside the text try block
text_step(p, what, txt, next) ==
    /\ ui_action(p, FALSE, {"error"},
                 Completed(proc[p], "publish", what, proc[p].i, txt, next),
                 TypingFail(proc[p], what, "timeout"),
                 TypingFail(proc[p], what, "error"))
    /\ UNCHANGED <<variant, posts, assets, folderUrl, sessionFile, scratch, active, split>>

\* text_area_container.click()
p_text_click(p) ==
    /\ proc[p].pc = "p_text_click"
    /\ text_step(p, "text_click", <<>>, "p_type")

\* (mutant) the loop leaves one post earlier:  if i < len(posts) - 2
AfterText_early(i, n) == IF i < n - 2 THEN "p_add_next" ELSE "p_publish"

\* where the loop goes after the text of post i of n:  if i < len(posts) - 1
AfterText(i, n) == IF i < n - 1 THEN "p_add_next" ELSE "p_publish"

\* page.keyboard.type(text_to_type, delay=50)
p_type(p) ==
    /\ proc[p].pc = "p_type"
    /\ text_step(p, "type", text_to_type(posts[proc[p].i + 1]),
                 AfterText(proc[p].i, Len(posts)))

\* (mutant) the loop goes on to the next post without waiting for its container
p_add_next_nowait(p) ==
    /\ proc[p].pc = "p_add_next"
    /\ proc' = [proc EXCEPT ![p] =
                   [Completed(proc[p], "publish", "add_next", proc[p].i, <<>>,
                              PostEntry(variant, posts[proc[p].i + 2]))
                      EXCEPT !.i = proc[p].i + 1]]
    /\ UNCHANGED <<variant, posts, assets, folderUrl, sessionFile, scratch, active, split>>

\* click the add-tweet button of container i
p_add_next(p) ==
    /\ proc[p].pc = "p_add_next"
    /\ publish_step(p, "add_next", UsesRetry(variant), <<>>, "p_next_container")

\* wait for container i + 1, the settle delay, and the next loop iteration
p_next_container(p) ==
    /\ proc[p].pc = "p_next_container"
    /\ ui_action(p, FALSE, {"error"},
                 [Completed(proc[p], "publish", "container", proc[p].i + 1, <<>>,
                            PostEntry(variant, posts[proc[p].i + 2]))
                    EXCEPT !.i = proc[p].i + 1],
                 PublishFail([proc[p] EXCEPT !.i = proc[p].i + 1], "container", "timeout"),
                 PublishFail([proc[p] EXCEPT !.i = proc[p].i + 1], "container", "error"))
    /\ UNCHANGED <<variant, posts, assets, folderUrl, sessionFile, scratch, active, split>>

\* click "Publish"
p_publish(p) ==
    /\ proc[p].pc = "p_publish"
    /\ publish_step(p, "publish", UsesRetry(variant), <<>>, "p_publish_now")

\* click "Publish now"
p_publish_now(p) ==
    /\ proc[p].pc = "p_publish_now"
    /\ publish_step(p, "publish_now", UsesRetry(variant), <<>>, "p_close")

\* (mutant) closing the publisher's browser deletes the session file
p_close_deletes_session(p) ==
    /\ proc[p].pc = "p_close"
    /\ sessionFile' = NoSession
    /\ proc' = [proc EXCEPT ![p] =
                   Terminate(Log(proc[p], Ev("publish", "step", "close", -1, <<>>)),
                             "none", "Published")]
    /\ UNCHANGED <<variant, posts, assets, folderUrl, scratch, active, split>>

\* context.close(); browser.close(); the return to __main__
p_close(p) ==
    /\ proc[p].pc = "p_close"
    /\ ui_action(p, FALSE, {"error"},
                 Terminate(Log(proc[p], Ev("publish", "step", "close", -1, <<>>)),
                           "none", "Published"),
                 PublishFail(proc[p], "close", "timeout"),
                 PublishFail(proc[p], "close", "error"))
    /\ UNCHANGED <<variant, posts, assets, folderUrl, sessionFile, scratch, active, split>>

----------------------------------------------------------------------------
(* The bracket split on its own, applied to every short string *)

\* every string of at most MaxLen characters
Strings == UNION { [1..n -> Chars] : n \in 0..MaxLen }

\* the split computation before it has run
IdleSplit ==
    [pc |-> "idle", s |-> <<>>, pfHas |-> FALSE, pfTag |-> <<>>,
     loopHas |-> FALSE, loopTag |-> <<>>, text |-> <<>>]

\* the pre-flight scan's split of one post string
split_preflight ==
    /\ split.pc = "start"
    /\ split' = [split EXCEPT
                   !.pc = "scanned",
                   !.pfHas = PreflightHasTag(split.s),
                   !.pfTag = IF PreflightHasTag(split.s)
                             THEN PreflightTag(split.s) ELSE <<>>]
    /\ UNCHANGED <<variant, posts, assets, folderUrl, sessionFile, scratch, active, proc>>

\* the per-post loop's split of the same post string
split_loop ==
    /\ split.pc = "scanned"
    /\ split' = [split EXCEPT
                   !.pc = "typed",
                   !.loopHas = LoopHasTag(split.s),
                   !.loopTag = IF LoopHasTag(split.s) THEN LoopTag(split.s) ELSE <<>>,
                   !.text = text_to_type(split.s)]
    /\ UNCHANGED <<variant, posts, assets, folderUrl, sessionFile, scratch, active, proc>>

----------------------------------------------------------------------------
(* Specifications *)

\* the identifiers of the orchestrator processes
Procs == {1, 2}

\* one orchestrator process, run after run, on one machine: the session file
\* and the downloads directory outlive a run, everything else starts afresh
Init ==
    /\ variant \in Variants
    /\ posts \in PostLists
    /\ assets \in SUBSET Tags
    /\ folderUrl = "unset"
    /\ variant = "script" => assets = {}
    /\ sessionFile = NoSession
    /\ scratch = {}
    /\ active = {1}
    /\ proc = [p \in Procs |-> IdleProc]
    /\ split = IdleSplit

Next ==
    \/ \E p \in active : StartRun(p)
    \/ \E p \in active : m_folder_url(p)
    \/ \E p \in active : m_isfile(p)
    \/ \E p \in active : m_recheck(p)
    \/ \E p \in active : l_creds(p)
    \/ \E p \in active : l_launch(p)
    \/ \E p \in active : l_login_visible(p)
    \/ \E p \in active : l_click_login(p)
    \/ \E p \in active : l_popup(p)
    \/ \E p \in active : l_allow(p)
    \/ \E p \in active : l_fill_user(p)
    \/ \E p \in active : l_next(p)
    \/ \E p \in active : l_opt_fill(p)
    \/ \E p \in active : l_opt_next(p)
    \/ \E p \in active : l_fill_password(p)
    \/ \E p \in active : l_login_button(p)
    \/ \E p \in active : l_authorize(p)
    \/ \E p \in active : l_popup_close(p)
    \/ \E p \in active : l_settle(p)
    \/ \E p \in active : l_storage_state(p)
    \/ \E p \in active : l_close(p)
    \/ \E p \in active : p_drive(p)
    \/ \E p \in active : p_preflight(p)
    \/ \E p \in active : p_open(p)
    \/ \E p \in active : p_new_draft(p)
    \/ \E p \in active : p_container0(p)
    \/ \E p \in active : p_download(p)
    \/ \E p \in active : p_hover(p)
    \/ \E p \in active : p_media_click(p)
    \/ \E p \in active : p_menu_click(p)
    \/ \E p \in active : p_set_files(p)
    \/ \E p \in active : p_preview(p)
    \/ \E p \in active : p_remove(p)
    \/ \E p \in active : p_text_click(p)
    \/ \E p \in active : p_type(p)
    \/ \E p \in active : p_add_next(p)
    \/ \E p \in active : p_next_container(p)
    \/ \E p \in active : p_publish(p)
    \/ \E p \in active : p_publish_now(p)
    \/ \E p \in active : p_close(p)

Spec == Init /\ [][Next]_vars

\* the timeout, in ms, of the page.goto that opens the publisher's session:
\* docker_run and script.py pass timeout=0, which switches the timeout off;
\* script_n_gdrive.py passes none and gets Playwright's default
goto_timeout(v) == IF v = "script_n_gdrive" THEN 30000 ELSE 0

\* the steps whose wait is bounded (a timeout, a fixed delay, a bounded retry
\* loop, plain computation): once begun they end, by completing or by raising
BoundedStep(p) ==
    \/ m_folder_url(p) \/ m_isfile(p) \/ m_recheck(p)
    \/ l_creds(p) \/ l_launch(p) \/ l_login_visible(p) \/ l_click_login(p)
    \/ l_popup(p) \/ l_allow(p) \/ l_fill_user(p) \/ l_next(p) \/ l_opt_fill(p)
    \/ l_opt_next(p) \/ l_fill_password(p) \/ l_login_button(p) \/ l_authorize(p)
    \/ l_popup_close(p) \/ l_settle(p) \/ l_storage_state(p) \/ l_close(p)
    \/ p_drive(p) \/ p_preflight(p)
    \/ (goto_timeout(variant) > 0 /\ p_open(p))
    \/ p_new_draft(p) \/ p_container0(p) \/ p_download(p) \/ p_hover(p)
    \/ p_media_click(p) \/ p_menu_click(p) \/ p_set_files(p) \/ p_preview(p)
    \/ p_remove(p) \/ p_text_click(p) \/ p_type(p) \/ p_add_next(p)
    \/ p_next_container(p) \/ p_publish(p) \/ p_publish_now(p) \/ p_close(p)

\* a run that has started goes on as long as one of its bounded steps is due;
\* nothing is assumed of a page.goto without timeout, nor of a new run starting
SpecLive == Init /\ [][Next]_vars /\ WF_vars(\E p \in Procs : p \in active /\ BoundedStep(p))

\* two orchestrator processes started side by side in one working directory:
\* the same script (docker_run), the same environment, the same post list,
\* one session path and one downloads directory
ConcPostLists ==
    { << <<"A", " ", "[", "x", "]">>, <<"B">> >>,
      << <<"B">>, <<"A", " ", "[", "x", "]">> >> }

InitConc ==
    /\ variant = "docker_run"
    /\ posts \in ConcPostLists
    /\ assets = Tags
    /\ folderUrl = "valid"
    /\ sessionFile = NoSession
    /\ scratch = {}
    /\ active = Procs
    /\ proc = [p \in Procs |-> IdleProc]
    /\ split = IdleSplit

\* python docker_run.py is started once per process
StartOnce(p) ==
    /\ proc[p].pc = "idle"
    /\ proc' = [proc EXCEPT ![p] =
                   [IdleProc EXCEPT !.pc = "m_folder_url",
                                    !.sessionAtStart = sessionFile,
                                    !.scratchAtStart = scratch]]
    /\ UNCHANGED <<variant, posts, assets, folderUrl, sessionFile, scratch, active, split>>

NextConc ==
    \/ \E p \in active : StartOnce(p)
    \/ \E p \in active : m_folder_url(p)
    \/ \E p \in active : m_isfile(p)
    \/ \E p \in active : m_recheck(p)
    \/ \E p \in active : l_creds(p)
    \/ \E p \in active : l_launch(p)
    \/ \E p \in active : l_login_visible(p)
    \/ \E p \in active : l_click_login(p)
    \/ \E p \in active : l_popup(p)
    \/ \E p \in active : l_allow(p)
    \/ \E p \in active : l_fill_user(p)
    \/ \E p \in active : l_next(p)
    \/ \E p \in active : l_opt_fill(p)
    \/ \E p \in active : l_opt_next(p)
    \/ \E p \in active : l_fill_password(p)
    \/ \E p \in active : l_login_button(p)
    \/ \E p \in active : l_authorize(p)
    \/ \E p \in active : l_popup_close(p)
    \/ \E p \in active : l_settle(p)
    \/ \E p \in active : l_storage_state(p)
    \/ \E p \in active : l_close(p)
    \/ \E p \in active : p_drive(p)
    \/ \E p \in active : p_preflight(p)
    \/ \E p \in active : p_open(p)
    \/ \E p \in active : p_new_draft(p)
    \/ \E p \in active : p_container0(p)
    \/ \E p \in active : p_download(p)
    \/ \E p \in active : p_hover(p)
    \/ \E p \in active : p_media_click(p)
    \/ \E p \in active : p_menu_click(p)
    \/ \E p \in active : p_set_files(p)
    \/ \E p \in active : p_preview(p)
    \/ \E p \in active : p_remove(p)
    \/ \E p \in active : p_text_click(p)
    \/ \E p \in active : p_type(p)
    \/ \E p \in active : p_add_next(p)
    \/ \E p \in active : p_next_container(p)
    \/ \E p \in active : p_publish(p)
    \/ \E p \in active : p_publish_now(p)
    \/ \E p \in active : p_close(p)

SpecConc == InitConc /\ [][NextConc]_vars

InitSplit ==
    /\ variant = "docker_run"
    /\ posts = << <<"B">> >>
    /\ assets = {}
    /\ folderUrl = "valid"
    /\ sessionFile = NoSession
    /\ scratch = {}
    /\ active = {}
    /\ proc = [p \in Procs |-> IdleProc]
    /\ split \in { [IdleSplit EXCEPT !.pc = "start", !.s = str] : str \in Strings }

NextSplit == split_preflight \/ split_loop

SpecSplit == InitSplit /\ [][NextSplit]_vars

----------------------------------------------------------------------------
(* Vocabulary of the properties, stated without the operators of the model *)

\* position of the first character c of s, 0 when there is none
FirstPos(s, c) ==
    IF \E k \in 1..Len(s) : s[k] = c
    THEN CHOOSE k \in 1..Len(s) : s[k] = c /\ \A h \in 1..(k - 1) : s[h] # c
    ELSE 0

\* s without its leading and trailing blanks
Trim(s) ==
    IF \A k \in 1..Len(s) : s[k] = " "
    THEN <<>>
    ELSE LET lo == CHOOSE k \in 1..Len(s) : s[k] # " " /\ \A h \in 1..(k - 1) : s[h] = " "
             hi == CHOOSE k \in 1..Len(s) : s[k] # " " /\ \A h \in (k + 1)..Len(s) : s[h] = " "
         IN  SubSeq(s, lo, hi)

\* the post string holds an opening bracket
HasBracket(s) == FirstPos(s, "[") > 0

\* the text before the first opening bracket
BeforeBracket(s) == SubSeq(s, 1, FirstPos(s, "[") - 1)

\* the text after the first opening bracket
AfterBracket(s) == SubSeq(s, FirstPos(s, "[") + 1, Len(s))

\* the token between the first '[' and the first ']' that follows it
Token(s) ==
    IF FirstPos(AfterBracket(s), "]") > 0
    THEN SubSeq(AfterBracket(s), 1, FirstPos(AfterBracket(s), "]") - 1)
    ELSE AfterBracket(s)

\* the body and the media tag the post convention gives a post string
BodyOf(s) == IF HasBracket(s) THEN Trim(BeforeBracket(s)) ELSE s
TagOf(s) == Trim(Token(s))

\* the trace of the current run of process p
Trace(p) == proc[p].events

\* the positions of the trace that hold an event of this flow, kind and name
Where(p, flow, op, what) ==
    { k \in 1..Len(Trace(p)) :
        /\ Trace(p)[k].flow = flow
        /\ Trace(p)[k].op = op
        /\ Trace(p)[k].what = what }

\* such an event happened in the current run
Happened(p, flow, op, what) == Where(p, flow, op, what) # {}

\* the control points of automate_typefully from the opening of its browser on
PublisherUiPcs ==
    {"p_open", "p_new_draft", "p_container0", "p_download", "p_hover",
     "p_media_click", "p_menu_click", "p_set_files", "p_preview", "p_remove",
     "p_text_click", "p_type", "p_add_next", "p_next_container", "p_publish",
     "p_publish_now", "p_close"}

\* the folder of the asset store holds the file
StoreHolds(tag) == folderUrl = "valid" /\ tag \in assets

\* some post names a file the asset store does not hold
HasUnresolvedTag ==
    \E n \in 1..Len(posts) : HasBracket(posts[n]) /\ ~StoreHolds(TagOf(posts[n]))

----------------------------------------------------------------------------
(* C1 *)

\* C1 as stated: when a post names a file the asset store does not resolve,
\* no browser session at all (neither of the Authentication Flow nor of the
\* Thread Publisher) is opened in the run.
C1_NoUiSessionInWholeRun ==
    \A p \in active :
        (UsesAssetStore(variant) /\ HasUnresolvedTag) =>
            \A k \in 1..Len(Trace(p)) :
                (Trace(p)[k].op = "step" /\ Trace(p)[k].flow \in {"auth", "publish"})
                    => Trace(p)[k].what = "drive_service"

\* C1 amended: when a post names a file the asset store does not resolve, the
\* Thread Publisher never opens its browser session and has no side effect (no
\* download, no scratch file, no screenshot, no UI step); once its asset-store
\* client exists it ends the run with the asset-missing exit (SystemExit, 1).
C1_PublisherAbortsBeforeItsUiSession ==
    \A p \in active :
        (UsesAssetStore(variant) /\ HasUnresolvedTag) =>
            /\ proc[p].pc \notin PublisherUiPcs
            /\ \A k \in 1..Len(Trace(p)) :
                   Trace(p)[k].flow = "publish"
                       => Trace(p)[k].what \in {"drive_service", "preflight"}
            /\ scratch = proc[p].scratchAtStart
            /\ (proc[p].pc = "done" /\ Happened(p, "publish", "step", "drive_service"))
                   => /\ proc[p].reason = "AssetMissing"
                      /\ proc[p].exc = "SystemExit"
                      /\ proc[p].exit = 1

\* a docker_run run that logged in first and then aborted in the pre-flight
\* scan on a later post, after an earlier tagged post had resolved
C1_Witness ==
    \E p \in active :
        /\ variant = "docker_run"
        /\ HasUnresolvedTag
        /\ proc[p].pc = "done"
        /\ proc[p].reason = "AssetMissing"
        /\ proc[p].sessionAtStart = NoSession
        /\ Happened(p, "auth", "step", "storage_state")
        /\ Happened(p, "publish", "exists", "preflight")
        /\ Happened(p, "publish", "missing", "preflight")

----------------------------------------------------------------------------
(* C2 *)

\* the existence query of the current run answers "present" for the file
Resolves(p, tag) == StoreHolds(tag) /\ ~proc[p].qerr

\* every media tag of the post list resolves (also when no post has a tag)
AllTagsResolve(p) ==
    \A n \in 1..Len(posts) : HasBracket(posts[n]) => Resolves(p, TagOf(posts[n]))

\* the tagged posts of the list
TaggedPosts == { n \in 1..Len(posts) : HasBracket(posts[n]) }

\* C2: when every media tag resolves in the asset store, the pre-flight scan
\* reports no missing asset and never ends the run; after the scan (one
\* existence check per tagged post) the publisher opens its browser session,
\* and the first thing it does in that session is the 'New draft' click.
C2_PreflightPassesToNewDraft ==
    \A p \in active :
        (UsesAssetStore(variant)
           /\ Happened(p, "publish", "step", "drive_service")
           /\ AllTagsResolve(p)) =>
            /\ ~Happened(p, "publish", "missing", "preflight")
            /\ proc[p].reason # "AssetMissing"
            /\ proc[p].pc # "p_preflight" =>
                   /\ Cardinality(Where(p, "publish", "exists", "preflight"))
                          = Cardinality(TaggedPosts)
                   /\ \/ proc[p].pc = "p_open"
                      \/ Happened(p, "publish", "step", "open")
                      \/ Happened(p, "publish", "raise_error", "open")
            /\ Happened(p, "publish", "step", "open") =>
                   \/ proc[p].pc = "p_new_draft"
                   \/ Happened(p, "publish", "step", "new_draft")
                   \/ Happened(p, "publish", "raise_error", "new_draft")

\* a run with two tagged posts, both resolved, that has clicked 'New draft'
C2_Witness ==
    \E p \in active :
        /\ UsesAssetStore(variant)
        /\ AllTagsResolve(p)
        /\ Cardinality(TaggedPosts) >= 2
        /\ Cardinality(Where(p, "publish", "exists", "preflight")) >= 2
        /\ Happened(p, "publish", "step", "new_draft")

----------------------------------------------------------------------------
(* C3, checked under SpecSplit *)

\* the text a up to its first opening bracket (all of a when it has none)
UpToNextOpen(a) == IF FirstPos(a, "[") > 0 THEN SubSeq(a, 1, FirstPos(a, "[") - 1) ELSE a

\* a post string of the form "<body> [<file>]": one '[', and after it one ']'
\* that only blanks follow
Conventional(s) ==
    /\ HasBracket(s)
    /\ Cardinality({ k \in 1..Len(s) : s[k] = "[" }) = 1
    /\ Cardinality({ k \in 1..Len(s) : s[k] = "]" /\ k > FirstPos(s, "[") }) = 1
    /\ \A k \in 1..Len(s) :
           k > FirstPos(s, "[") + FirstPos(AfterBracket(s), "]") => s[k] = " "

\* C3 as stated: for every post string the body is the text before '[' and the
\* tag exactly the token between '[' and ']' (read here for the strings that
\* have one '[' and one ']' after it); a string without bracket is all body;
\* scan and loop agree.
C3_SplitOfEveryString ==
    split.pc = "typed" =>
        /\ split.pfHas = split.loopHas
        /\ split.pfTag = split.loopTag
        /\ split.loopHas = HasBracket(split.s)
        /\ ~HasBracket(split.s) => split.text = split.s
        /\ HasBracket(split.s) => split.text = BodyOf(split.s)
        /\ (/\ Cardinality({ k \in 1..Len(split.s) : split.s[k] = "[" }) = 1
            /\ Cardinality({ k \in 1..Len(split.s) :
                               split.s[k] = "]" /\ k > FirstPos(split.s, "[") }) = 1)
               => split.loopTag = TagOf(split.s)

\* C3 amended: a string without '[' is all body and has no tag; otherwise the
\* body is the trimmed text before the first '[' and the tag is the text from
\* the first '[' to the next '[' (or the end), with every ']' removed, trimmed;
\* for a string of the form "<body> [<file>]" that is the trimmed token between
\* '[' and ']'.  The pre-flight scan and the loop derive the same result.
C3_SplitAmended ==
    split.pc = "typed" =>
        /\ split.pfHas = split.loopHas
        /\ split.pfTag = split.loopTag
        /\ split.loopHas = HasBracket(split.s)
        /\ ~HasBracket(split.s) => (split.text = split.s /\ split.loopTag = <<>>)
        /\ HasBracket(split.s) =>
               /\ split.text = BodyOf(split.s)
               /\ split.loopTag =
                      Trim(SelectSeq(UpToNextOpen(AfterBracket(split.s)),
                                     LAMBDA c : c # "]"))
        /\ Conventional(split.s) => split.loopTag = TagOf(split.s)

\* the split of "a [b]" has been computed by the scan and by the loop
C3_Witness ==
    /\ split.pc = "typed"
    /\ split.s = <<"a", " ", "[", "b", "]">>
    /\ Conventional(split.s)
    /\ split.text = <<"a">>
    /\ split.pfTag = <<"b">>
    /\ split.loopTag = <<"b">>

----------------------------------------------------------------------------
(* C4, C9, C10: the Authentication Flow *)

\* password entry has begun: the flow is at, or has executed, the password fill
PasswordEntryBegun(p) ==
    \/ proc[p].pc = "l_fill_password"
    \/ \E k \in 1..Len(Trace(p)) :
           Trace(p)[k].flow = "auth" /\ Trace(p)[k].what = "fill_password"

\* C4: when the optional identifier-confirmation field does not appear within
\* its timeout, nothing is raised to the caller and the next thing the flow
\* does is the password entry; when the field appears and is filled, 'Next' is
\* clicked before the password entry begins.
C4_OptionalVerification ==
    \A p \in active :
        /\ \A k \in Where(p, "auth", "raise_timeout", "opt_fill") :
               /\ proc[p].reason # "opt_fill"
               /\ IF k = Len(Trace(p))
                  THEN proc[p].pc = "l_fill_password"
                  ELSE Trace(p)[k + 1].what = "fill_password"
        /\ (Happened(p, "auth", "step", "opt_fill") /\ PasswordEntryBegun(p))
               => Happened(p, "auth", "step", "opt_next")

\* the steps of perform_login that precede storage_state, in program order,
\* without the optional verification
MandatoryAuthSteps ==
    <<"goto", "login_visible", "click_login", "popup", "allow", "fill_user", "next",
      "fill_password", "login_button", "authorize", "popup_closed", "settle">>

\* the same with the optional verification after the first 'Next'
AllowedAuthOrders ==
    { MandatoryAuthSteps,
      SubSeq(MandatoryAuthSteps, 1, 7) \o <<"opt_fill">>
          \o SubSeq(MandatoryAuthSteps, 8, 12),
      SubSeq(MandatoryAuthSteps, 1, 7) \o <<"opt_fill", "opt_next">>
          \o SubSeq(MandatoryAuthSteps, 8, 12) }

\* the names of the steps of the Authentication Flow completed before position k
AuthStepsBefore(p, k) ==
    LET done == SelectSeq(SubSeq(Trace(p), 1, k - 1),
                          LAMBDA e : e.flow = "auth" /\ e.op = "step")
    IN  [j \in 1..Len(done) |-> done[j].what]

C10_StepFailureIsTerminal ==
    \A p \in active :
        \A k \in 1..Len(Trace(p)) :
            (/\ Trace(p)[k].op \in {"raise_timeout", "raise_error"}
             /\ ~(Trace(p)[k].what = "opt_fill" /\ Trace(p)[k].op = "raise_timeout"))
                => /\ proc[p].pc = "done"
                   /\ \A j \in (k + 1)..Len(Trace(p)) :
                          Trace(p)[j].flow = Trace(p)[k].flow => Trace(p)[j].op # "step"

----------------------------------------------------------------------------
(* C5, C8: the Session Store and the entry orchestrator *)

\* the control points of perform_login
AuthPcs ==
    {"l_creds", "l_launch", "l_login_visible", "l_click_login", "l_popup", "l_allow",
     "l_fill_user", "l_next", "l_opt_fill", "l_opt_next", "l_fill_password",
     "l_login_button", "l_authorize", "l_popup_close", "l_settle", "l_storage_state",
     "l_close"}

\* __main__ has called the flow in this run
Called(p, flow) == Happened(p, "main", "call", flow)

\* the run has not yet passed the first look at the session file
BeforeSessionCheck(p) == proc[p].pc \in {"idle", "m_folder_url", "m_isfile"}

\* what every run that starts with a saved session does, whatever else holds
SessionIsReused(p) ==
    /\ proc[p].pc \notin AuthPcs
    /\ ~Called(p, "perform_login")
    /\ \A k \in 1..Len(Trace(p)) : Trace(p)[k].flow # "auth"
    /\ sessionFile = proc[p].sessionAtStart
    /\ Happened(p, "publish", "step", "open") => proc[p].ctx = proc[p].sessionAtStart

\* C5 as stated: every run that starts with a saved session executes no
\* authentication step, leaves the session file as it is, and starts the
\* Thread Publisher, whose browser context holds exactly the saved session.
C5_SessionRoundTrip ==
    \A p \in active :
        proc[p].sessionAtStart # NoSession =>
            /\ SessionIsReused(p)
            /\ ~BeforeSessionCheck(p) => Called(p, "automate_typefully")

\* C5 amended: the same, for the runs whose configuration check passed; a run
\* of docker_run or script_n_gdrive with no folder URL ends before it looks at
\* the session file and starts neither flow.
C5_SessionRoundTripWhenConfigured ==
    \A p \in active :
        proc[p].sessionAtStart # NoSession =>
            /\ SessionIsReused(p)
            /\ IF proc[p].reason = "FolderUrlMissing"
               THEN /\ UsesAssetStore(variant)
                    /\ folderUrl = "unset"
                    /\ ~Called(p, "automate_typefully")
               ELSE ~BeforeSessionCheck(p) => Called(p, "automate_typefully")

\* a later run that loaded the saved session and clicked 'New draft' with it
C5_Witness ==
    \E p \in active :
        /\ proc[p].sessionAtStart \in Sessions
        /\ Happened(p, "publish", "step", "new_draft")
        /\ proc[p].ctx = proc[p].sessionAtStart

\* perform_login has returned normally to __main__
LoginReturned(p) == Happened(p, "auth", "step", "close")

\* the run is over
Finished(p) == proc[p].pc = "done"

\* in every variant: the publisher is called only when the session file is
\* there, a login runs only in a run that found no session file, and a login
\* that raised is followed by no publisher
OrchestratorCommon(p) ==
    /\ Called(p, "automate_typefully") => sessionFile # NoSession
    /\ Called(p, "perform_login") => proc[p].sessionAtStart = NoSession
    /\ (Called(p, "perform_login") /\ Finished(p) /\ ~LoginReturned(p))
           => ~Called(p, "automate_typefully")

\* C8 as stated: the first thing a run does is look at the session file; with
\* a session it runs the Thread Publisher; without one it runs the
\* Authentication Flow and, in the same run, the Thread Publisher when the
\* session file now exists, or ends with a login error when it does not. The
\* Thread Publisher never starts while there is no session file.
C8_Orchestrator ==
    \A p \in active :
        /\ OrchestratorCommon(p)
        /\ (~BeforeSessionCheck(p) /\ proc[p].sessionAtStart # NoSession)
               => Called(p, "automate_typefully")
        /\ (~BeforeSessionCheck(p) /\ proc[p].sessionAtStart = NoSession)
               => Called(p, "perform_login")
        /\ (Finished(p) /\ LoginReturned(p)) =>
               IF sessionFile # NoSession
               THEN Called(p, "automate_typefully")
               ELSE proc[p].exc = "LoginError"

\* C8 amended: docker_run and script_n_gdrive first check the folder URL and
\* end the run when it is missing; after that the run looks at the session
\* file and calls the Thread Publisher (session present) or the Authentication
\* Flow (absent). Only docker_run re-checks after a login that returned: it
\* then calls the Thread Publisher in the same run, or ends with LoginError
\* (exit 1) when the file is still missing. script.py and script_n_gdrive.py
\* end the run after the login (exit 0) and publish in a later run.
C8_OrchestratorPerScript ==
    \A p \in active :
        /\ OrchestratorCommon(p)
        /\ IF proc[p].reason = "FolderUrlMissing"
           THEN /\ UsesAssetStore(variant)
                /\ ~Called(p, "automate_typefully")
                /\ ~Called(p, "perform_login")
                /\ proc[p].exit = 1
           ELSE /\ (~BeforeSessionCheck(p) /\ proc[p].sessionAtStart # NoSession)
                       => Called(p, "automate_typefully")
                /\ (~BeforeSessionCheck(p) /\ proc[p].sessionAtStart = NoSession)
                       => Called(p, "perform_login")
        /\ (Finished(p) /\ LoginReturned(p)) =>
               IF variant = "docker_run"
               THEN IF sessionFile # NoSession
                    THEN Called(p, "automate_typefully")
                    ELSE /\ proc[p].exc = "LoginError"
                         /\ proc[p].reason = "AuthFileNotCreated"
                         /\ proc[p].exit = 1
               ELSE /\ ~Called(p, "automate_typefully")
                    /\ proc[p].reason = "LoginDone"
                    /\ proc[p].exit = 0

\* a docker_run run that found no session, logged in, re-checked and went on
\* to open the publisher's browser session in the same run
C8_Witness ==
    \E p \in active :
        /\ variant = "docker_run"
        /\ proc[p].sessionAtStart = NoSession
        /\ LoginReturned(p)
        /\ Called(p, "automate_typefully")
        /\ Happened(p, "publish", "step", "open")

----------------------------------------------------------------------------
(* C6, C7: the per-post loop of the Thread Publisher *)

\* the completed steps of the publisher named `what`, in the order they ran
StepsNamed(p, what) ==
    SelectSeq(Trace(p), LAMBDA e : e.flow = "publish" /\ e.op = "step" /\ e.what = what)

\* the position in the trace of the completed step `what` of post n (0 if none)
StepPos(p, what, n) ==
    LET at == { k \in Where(p, "publish", "step", what) : Trace(p)[k].post = n }
    IN  IF at = {} THEN 0 ELSE CHOOSE k \in at : \A j \in at : k <= j

\* C6: a run that published a list of N posts, M of them tagged, has created
\* exactly N containers (one per post index), attached exactly M media items
\* (of each tagged post its own file, after its container appeared and before
\* its body was typed and before the next container), typed the N bodies in
\* list order, clicked 'add next post' exactly N-1 times, and clicked
\* 'Publish' and then 'Publish now' exactly once each after the last body.
C6_PublishRunShape ==
    \A p \in active :
        (proc[p].pc = "done" /\ proc[p].reason = "Published") =>
            LET N == Len(posts)
                typed == StepsNamed(p, "type")
            IN  /\ Len(StepsNamed(p, "container")) = N
                /\ \A n \in 0..(N - 1) : StepPos(p, "container", n) > 0
                /\ Len(StepsNamed(p, "set_files")) = Cardinality(TaggedPosts)
                /\ \A n \in TaggedPosts :
                       LET k == StepPos(p, "set_files", n - 1)
                       IN  /\ k > StepPos(p, "container", n - 1)
                           /\ Trace(p)[k].txt = TagOf(posts[n])
                           /\ k < StepPos(p, "type", n - 1)
                           /\ n < N => k < StepPos(p, "container", n)
                /\ Len(typed) = N
                /\ \A n \in 1..N : /\ typed[n].post = n - 1
                                   /\ typed[n].txt = BodyOf(posts[n])
                /\ Len(StepsNamed(p, "add_next")) = N - 1
                /\ Len(StepsNamed(p, "publish")) = 1
                /\ Len(StepsNamed(p, "publish_now")) = 1
                /\ StepPos(p, "type", N - 1) < StepPos(p, "publish", N - 1)
                /\ StepPos(p, "publish", N - 1) < StepPos(p, "publish_now", N - 1)

\* the list ["A [x]", "B"] published by docker_run: two containers, one
\* attachment on container 0, one 'add next post'
C6_Witness ==
    \E p \in active :
        /\ variant = "docker_run"
        /\ posts = << <<"A", " ", "[", "x", "]">>, <<"B">> >>
        /\ proc[p].pc = "done"
        /\ proc[p].reason = "Published"
        /\ Len(StepsNamed(p, "container")) = 2
        /\ StepPos(p, "set_files", 0) > 0
        /\ Len(StepsNamed(p, "add_next")) = 1

\* the steps of the publisher that belong to one post of the list
LoopSteps ==
    {"container", "download", "hover", "media_click", "menu_click", "set_files",
     "preview", "remove", "text_click", "type", "add_next"}

\* C7 amended: when the download for post i fails in the loop, the run ends with
\* sys.exit(1) after a screenshot: of post i only the container step has run
\* (no hover, no media click, no file chooser, no text), no later post is
\* touched, 'Publish' is not clicked, the scratch files of the earlier posts
\* have been removed, and the only file this run leaves in the downloads
\* directory is the one whose download failed.
C7_DownloadFailureAborts ==
    \A p \in active :
        proc[p].reason = "DownloadFailed" =>
            LET i   == proc[p].i
                tag == TagOf(posts[i + 1])
            IN  /\ proc[p].pc = "done"
                /\ proc[p].exc = "SystemExit"
                /\ proc[p].exit = 1
                /\ Happened(p, "publish", "exists", "preflight")
                /\ \E k \in Where(p, "publish", "download_failed", "download") :
                       Trace(p)[k].post = i /\ Trace(p)[k].txt = tag
                /\ \E k \in Where(p, "publish", "screenshot", "download") :
                       Trace(p)[k].post = i + 1
                /\ \A k \in 1..Len(Trace(p)) :
                       (Trace(p)[k].flow = "publish" /\ Trace(p)[k].op = "step"
                          /\ Trace(p)[k].what \in LoopSteps
                          /\ Trace(p)[k].post >= i)
                           => (Trace(p)[k].post = i /\ Trace(p)[k].what = "container")
                /\ StepsNamed(p, "publish") = <<>>
                /\ StepsNamed(p, "publish_now") = <<>>
                /\ \A n \in 1..i :
                       HasBracket(posts[n]) =>
                           /\ StepPos(p, "remove", n - 1) > 0
                           /\ TagOf(posts[n]) # tag => TagOf(posts[n]) \notin scratch
                /\ scratch \ proc[p].scratchAtStart \subseteq {tag}

\* C7 as stated, for what is on disk: after the failed download of post i the
\* downloads directory holds no file other than the one whose download failed.
C7_OnlyTheFailedFileOnDisk ==
    \A p \in active :
        proc[p].reason = "DownloadFailed" =>
            /\ StepsNamed(p, "publish") = <<>>
            /\ scratch \subseteq {TagOf(posts[proc[p].i + 1])}

\* the download of the second post's file failed and left a partial file,
\* after the first post's different file had been attached and removed
C7_Witness ==
    \E p \in active :
        /\ proc[p].reason = "DownloadFailed"
        /\ proc[p].i = 1
        /\ HasBracket(posts[1])
        /\ TagOf(posts[1]) # TagOf(posts[2])
        /\ StepPos(p, "remove", 0) > 0
        /\ TagOf(posts[2]) \in scratch
        /\ TagOf(posts[1]) \notin scratch

----------------------------------------------------------------------------
(* C11: click_with_retry *)

\* the control points whose action docker_run makes through click_with_retry
RetryPcs ==
    {"l_click_login", "l_allow", "l_next", "l_opt_next", "l_login_button",
     "l_authorize", "p_new_draft", "p_media_click", "p_menu_click", "p_add_next",
     "p_publish", "p_publish_now"}

\* the step of process p is a further attempt of the action it was at
Reattempt(p) ==
    /\ proc'[p].pc = proc[p].pc
    /\ proc'[p].attempt # proc[p].attempt

\* the step of process p appends one event with an operation in ops
Appends(p, ops) ==
    /\ Len(proc'[p].events) > Len(proc[p].events)
    /\ proc'[p].events[Len(proc[p].events) + 1].op \in ops

\* C11: an action is attempted at most 3 times, and more than once only
\* through click_with_retry; a further attempt is made only after a failed
\* attempt that was not the third, 2000 ms after it, and records nothing;
\* the attempt that succeeds ends the action (control leaves it, the count
\* starts afresh); an exception leaves a wrapped action only from its third
\* attempt, after two delays, and is the one the caller then sees.
C11_RetryWrapper ==
    [][\A p \in active :
         /\ proc[p].attempt \in 1..3
         /\ proc[p].slept = (proc[p].attempt - 1) * 2000
         /\ Reattempt(p) =>
                /\ UsesRetry(variant)
                /\ proc[p].pc \in RetryPcs
                /\ proc[p].attempt < 3
                /\ proc'[p].attempt = proc[p].attempt + 1
                /\ proc'[p].slept = proc[p].slept + 2000
                /\ proc'[p].events = proc[p].events
         /\ (proc[p].pc \in RetryPcs /\ Appends(p, {"step"})) =>
                /\ proc'[p].pc # proc[p].pc
                /\ proc'[p].attempt = 1
                /\ proc'[p].slept = 0
         /\ (proc[p].pc \in RetryPcs /\ Appends(p, {"raise_timeout", "raise_error"})) =>
                /\ proc[p].attempt = (IF UsesRetry(variant) THEN 3 ELSE 1)
                /\ proc[p].slept = (IF UsesRetry(variant) THEN 4000 ELSE 0)
                /\ proc'[p].pc # proc[p].pc
      ]_vars

\* the 'New draft' click of docker_run failed three times, 4 s of delays in
\* between, and its exception ended the run
C11_Witness ==
    \E p \in active :
        /\ variant = "docker_run"
        /\ proc[p].pc = "done"
        /\ proc[p].reason = "new_draft"
        /\ proc[p].exc = "Exception"
        /\ proc[p].attempt = 3
        /\ proc[p].slept = 4000
        /\ Happened(p, "publish", "raise_error", "new_draft")

----------------------------------------------------------------------------
(* C12: failures inside the media and text try blocks *)

\* the steps inside the media try block and inside the text try block
MediaSteps == {"hover", "media_click", "menu_click", "set_files", "preview", "remove"}
TextSteps == {"text_click", "type"}

\* the run ended because a step of one of the two try blocks raised
StageFailed(p) ==
    /\ proc[p].pc = "done"
    /\ proc[p].exc = "Exception"
    /\ proc[p].reason \in MediaSteps \cup TextSteps

\* the stage name the handler of the failed step puts in the screenshot name
StageOf(what) == IF what \in MediaSteps THEN "media" ELSE "typing"

\* C12: when a step of the media stage or of the text stage of post i raises,
\* the handler takes one screenshot named by the stage and by post number
\* i + 1 and the exception ends the publish call and the run; nothing is
\* undone: the bodies of posts 0..i-1, and only those, have been typed, in
\* order, and no step of a later post, no 'Publish' and no 'Publish now'
\* has run.
C12_StageFailureAborts ==
    \A p \in active :
        StageFailed(p) =>
            LET i == proc[p].i
                T == Trace(p)
                L == Len(Trace(p))
                typed == StepsNamed(p, "type")
            IN  /\ L >= 3
                /\ T[L - 2].flow = "publish"
                /\ T[L - 2].op \in {"raise_timeout", "raise_error"}
                /\ T[L - 2].what = proc[p].reason
                /\ T[L - 2].post = i
                /\ T[L - 1] = Ev("publish", "screenshot", StageOf(proc[p].reason), i + 1, <<>>)
                /\ T[L] = Ev("main", "log", "Script finished.", -1, <<>>)
                /\ Cardinality({ k \in 1..L : T[k].op = "screenshot" }) = 1
                /\ Len(typed) = i
                /\ \A n \in 1..i : /\ typed[n].post = n - 1
                                   /\ typed[n].txt = BodyOf(posts[n])
                /\ \A k \in 1..L :
                       (T[k].flow = "publish" /\ T[k].op = "step" /\ T[k].what \in LoopSteps)
                           => T[k].post <= i
                /\ StepsNamed(p, "publish") = <<>>
                /\ StepsNamed(p, "publish_now") = <<>>
                /\ proc[p].exit = (IF variant = "docker_run" THEN 1 ELSE 0)

\* the uploaded preview of the second post never appeared, after the body of
\* the first post had been typed
C12_Witness ==
    \E p \in active :
        /\ StageFailed(p)
        /\ proc[p].reason = "preview"
        /\ proc[p].i = 1
        /\ StepPos(p, "type", 0) > 0
        /\ Happened(p, "publish", "screenshot", "media")

----------------------------------------------------------------------------
(* C13: the publish sequence *)

\* the click of the publisher named `what`, made at control point `at`, has
\* been attempted: it completed, it raised, or an attempt of it has failed
Clicked(p, what, at) ==
    \/ \E k \in 1..Len(Trace(p)) :
           /\ Trace(p)[k].flow = "publish"
           /\ Trace(p)[k].what = what
           /\ Trace(p)[k].op \in {"step", "raise_timeout", "raise_error"}
    \/ (proc[p].pc = at /\ proc[p].attempt > 1)

\* every post has its body typed and, when tagged, its file attached and the
\* uploaded preview seen, the attachment before the body
AllPostsEntered(p) ==
    \A n \in 1..Len(posts) :
        /\ StepPos(p, "type", n - 1) > 0
        /\ Trace(p)[StepPos(p, "type", n - 1)].txt = BodyOf(posts[n])
        /\ HasBracket(posts[n]) =>
               /\ StepPos(p, "set_files", n - 1) > 0
               /\ StepPos(p, "preview", n - 1) > StepPos(p, "set_files", n - 1)
               /\ StepPos(p, "type", n - 1) > StepPos(p, "preview", n - 1)

\* the run ended inside the loop: a download failed or a step of a post raised
AbortedInLoop(p) ==
    /\ proc[p].pc = "done"
    /\ \/ proc[p].reason = "DownloadFailed"
       \/ proc[p].exc = "Exception" /\ proc[p].reason \in LoopSteps

\* C13: in every run 'Publish' is clicked only when every post has its media
\* attached (when tagged) and its body typed; 'Publish now' is clicked only
\* after the 'Publish' click completed; a run that ends inside the loop has
\* clicked neither.
C13_PublishOnlyAfterAllPosts ==
    \A p \in active :
        /\ (proc[p].pc \in {"p_publish", "p_publish_now", "p_close"}
              \/ Clicked(p, "publish", "p_publish")) => AllPostsEntered(p)
        /\ Clicked(p, "publish_now", "p_publish_now") =>
               /\ StepPos(p, "publish", proc[p].i) > 0
               /\ \A k \in 1..Len(Trace(p)) :
                      (Trace(p)[k].flow = "publish" /\ Trace(p)[k].what = "publish_now")
                          => k > StepPos(p, "publish", proc[p].i)
        /\ AbortedInLoop(p) =>
               /\ ~Clicked(p, "publish", "p_publish")
               /\ ~Clicked(p, "publish_now", "p_publish_now")

\* 'Publish now' was clicked for a list of three posts with a tagged one
C13_Witness ==
    \E p \in active :
        /\ Len(posts) = 3
        /\ TaggedPosts # {}
        /\ TaggedPosts # 1..3
        /\ Happened(p, "publish", "step", "publish_now")
        /\ AllPostsEntered(p)

----------------------------------------------------------------------------
(* C14: the containers of the thread *)

\* the control points inside the loop body of one post
PerPostPcs ==
    {"p_download", "p_hover", "p_media_click", "p_menu_click", "p_set_files",
     "p_preview", "p_remove", "p_text_click", "p_type", "p_add_next"}

\* the containers seen present so far, in the order they were seen
Containers(p) == StepsNamed(p, "container")

\* C14: the containers are seen one after the other, 0, 1, 2, ...; while
\* post i is in the loop body exactly the containers 0..i have been seen and
\* 'add next post' has been clicked i times; every step of post i, completed
\* or failed, comes after container i was seen; 'add next post' is clicked
\* only for a post i < N-1 and the next thing the publisher does is the wait
\* for container i+1; nothing clicks it for the last post.
C14_ContainersIncremental ==
    \A p \in active :
        LET T == Trace(p)
            N == Len(posts)
        IN  /\ Len(Containers(p)) <= N
            /\ \A j \in 1..Len(Containers(p)) : Containers(p)[j].post = j - 1
            /\ proc[p].pc \in PerPostPcs =>
                   /\ Len(Containers(p)) = proc[p].i + 1
                   /\ Len(StepsNamed(p, "add_next")) = proc[p].i
            /\ \A k \in 1..Len(T) :
                   (/\ T[k].flow = "publish"
                    /\ T[k].op \in {"step", "raise_timeout", "raise_error", "download_failed"}
                    /\ T[k].what \in (LoopSteps \ {"container"})) =>
                       /\ T[k].post \in 0..(N - 1)
                       /\ StepPos(p, "container", T[k].post) \in 1..(k - 1)
            /\ \A k \in Where(p, "publish", "step", "add_next") :
                   /\ T[k].post < N - 1
                   /\ IF k = Len(T)
                      THEN proc[p].pc = "p_next_container"
                      ELSE /\ T[k + 1].flow = "publish"
                           /\ T[k + 1].what = "container"
                           /\ T[k + 1].op = "step" => T[k + 1].post = T[k].post + 1
            /\ proc[p].pc \in {"p_add_next", "p_next_container"} => proc[p].i < N - 1
            /\ \A k \in 1..Len(T) :
                   (T[k].flow = "publish" /\ T[k].what = "add_next") => T[k].post # N - 1

\* the body of the third post of three is about to be typed: containers 0, 1
\* and 2 have been seen, 'add next post' was clicked twice
C14_Witness ==
    \E p \in active :
        /\ Len(posts) = 3
        /\ proc[p].pc = "p_type"
        /\ proc[p].i = 2
        /\ Len(Containers(p)) = 3
        /\ Len(StepsNamed(p, "add_next")) = 2

----------------------------------------------------------------------------
(* C15: no retry or resume of a flow *)

\* the events that record a step of a flow having completed or failed
Outcomes(p) ==
    { k \in 1..Len(Trace(p)) :
        /\ Trace(p)[k].flow \in {"auth", "publish"}
        /\ Trace(p)[k].op \in {"step", "raise_timeout", "raise_error", "download_failed"} }

\* two events record the same step: the same statement of the same flow and,
\* in the loop of the publisher, for the same post
SameStep(e, f) ==
    /\ e.flow = f.flow
    /\ e.what = f.what
    /\ (e.flow = "publish" /\ e.what \in LoopSteps) => e.post = f.post

\* C15: in one run __main__ calls perform_login at most once and
\* automate_typefully at most once; no step of either flow that has completed
\* or failed is executed again; and more than one attempt is only ever made
\* of a single click that goes through click_with_retry.
C15_NoFlowLevelRetry ==
    \A p \in active :
        /\ Cardinality(Where(p, "main", "call", "perform_login")) <= 1
        /\ Cardinality(Where(p, "main", "call", "automate_typefully")) <= 1
        /\ \A k \in Outcomes(p) : \A j \in Outcomes(p) :
               k < j => ~SameStep(Trace(p)[k], Trace(p)[j])
        /\ proc[p].attempt > 1 => (UsesRetry(variant) /\ proc[p].pc \in RetryPcs \cup {"done"})

\* a docker_run run whose 'Authorize app' click failed on all attempts: the
\* login was called once, nothing was started again
C15_Witness ==
    \E p \in active :
        /\ variant = "docker_run"
        /\ proc[p].pc = "done"
        /\ proc[p].reason = "authorize"
        /\ proc[p].attempt = 3
        /\ Cardinality(Where(p, "main", "call", "perform_login")) = 1
        /\ ~Called(p, "automate_typefully")

----------------------------------------------------------------------------
(* C16: which actions go through click_with_retry *)

\* the clicks and fills of the two flows, by the name of their step (the
\* fill of the optional field, whose timeout is the expected skip, left out)
ClickAndFillSteps ==
    {"click_login", "allow", "fill_user", "next", "opt_next", "fill_password",
     "login_button", "authorize", "new_draft", "media_click", "menu_click",
     "text_click", "add_next", "publish", "publish_now"}

\* C16: in docker_run, the script with the retry wrapper, no click and no
\* fill ends the run on its first failure: when the exception of a click or
\* a fill has ended the run, that action had been attempted three times.
C16_RetryIsUniform ==
    \A p \in active :
        (/\ UsesRetry(variant)
         /\ proc[p].pc = "done"
         /\ proc[p].exc \in {"LoginError", "Exception"}
         /\ proc[p].reason \in ClickAndFillSteps)
            => proc[p].attempt = 3

----------------------------------------------------------------------------
(* C17: what the caller of a flow receives when the flow fails *)

\* the steps of docker_run's perform_login with a handler of their own that
\* raises LoginError("Login failed: Could not ...: {str(e)}")
NamedWithCause ==
    {"click_login", "allow", "next", "login_button", "authorize", "storage_state"}

\* the waits of docker_run's perform_login whose TimeoutError is replaced by
\* a LoginError with a fixed text
NamedWithoutCause == {"login_visible", "popup_closed"}

\* the checks that raise or exit with a text of their own
ConfigFailures == {"CredentialsMissing", "FolderUrlMissing", "AuthFileNotCreated"}

\* the error __main__ receives from a run that ended with exception class exc
\* for `reason`, the failing call having raised `kind`: its class, the step
\* its class or text names ("" when none), and whether it carries the text
\* of the exception that caused it
ErrorSeen(exc, reason, kind) ==
    [class |-> exc,
     names |-> CASE exc = "LoginError" /\ reason \in NamedWithCause \cup ConfigFailures
                      -> reason
                 [] exc = "LoginError" /\ reason \in NamedWithoutCause /\ kind = "timeout"
                      -> reason
                 [] exc = "SystemExit" /\ reason = "CredentialsMissing"
                      -> reason
                 [] OTHER -> "",
     cause |-> CASE exc = "SystemExit" -> FALSE
                 [] reason \in ConfigFailures -> FALSE
                 [] exc = "LoginError" /\ reason \in NamedWithoutCause /\ kind = "timeout"
                      -> FALSE
                 [] OTHER -> TRUE]

\* the kind of the exception that ended the run ("none" for an exit or a check)
FailureKind(p) ==
    LET raises == { k \in 1..Len(Trace(p)) :
                      Trace(p)[k].op \in {"raise_timeout", "raise_error"} }
    IN  IF raises = {} \/ proc[p].exc = "SystemExit" THEN "none"
        ELSE LET k == CHOOSE k \in raises : \A j \in raises : j <= k
             IN  IF Trace(p)[k].op = "raise_timeout" THEN "timeout" ELSE "error"

\* the error kind the taxonomy gives a failure ("" when it has none for it)
KindOf(reason) ==
    CASE reason \in {"goto", "login_visible"}            -> "LoginControlNotFound"
      [] reason \in {"click_login", "popup"}             -> "PopupFailed"
      [] reason = "allow"                                -> "ConsentFailed"
      [] reason \in {"fill_user", "next", "opt_fill", "opt_next"}
                                                         -> "IdentifierStepFailed"
      [] reason \in {"fill_password", "login_button"}    -> "PasswordStepFailed"
      [] reason = "authorize"                            -> "AuthorizeFailed"
      [] reason = "popup_closed"                         -> "PopupCloseTimeout"
      [] reason = "storage_state"                        -> "PersistFailed"
      [] reason = "AssetMissing"                         -> "AssetMissing"
      [] reason = "DownloadFailed"                       -> "DownloadFailed"
      [] reason \in MediaSteps                           -> "UploadNotConfirmed"
      [] reason \in TextSteps                            -> "TypingFailed"
      [] reason \in {"add_next", "container"}            -> "ExtendFailed"
      [] reason \in {"publish", "publish_now"}           -> "PublishClickFailed"
      [] OTHER                                           -> ""

\* C17: when a run ends with a failure the taxonomy has a kind for, the error
\* that reaches __main__ carries the text of the exception that caused it and
\* its class or text names a step of that kind.
C17_ErrorsCarryKindAndCause ==
    \A p \in active :
        (proc[p].pc = "done" /\ proc[p].exc # "none" /\ KindOf(proc[p].reason) # "") =>
            LET e == ErrorSeen(proc[p].exc, proc[p].reason, FailureKind(p))
            IN  /\ e.cause
                /\ e.names # ""
                /\ KindOf(e.names) = KindOf(proc[p].reason)

----------------------------------------------------------------------------
(* C18: screenshots of the publisher's failures *)

\* the run ended with one of the failures of the publisher that follow the
\* opening of its browser session: a failed download, a failed step of the
\* media or text stage, a failed 'add next post' or wait for the next
\* container, a failed 'Publish' or 'Publish now'
PublishStageFailed(p) ==
    /\ proc[p].pc = "done"
    /\ proc[p].exc # "none"
    /\ Happened(p, "publish", "step", "open")
    /\ \/ proc[p].reason = "DownloadFailed"
       \/ proc[p].reason \in MediaSteps \cup TextSteps
       \/ proc[p].reason \in {"add_next", "publish", "publish_now"}
       \/ proc[p].reason = "container" /\ proc[p].i >= 1

\* C18: whenever the publisher has ended with one of these failures, a
\* screenshot was taken in the run.
C18_ScreenshotBeforeAbort ==
    \A p \in active :
        PublishStageFailed(p) =>
            \E k \in 1..Len(Trace(p)) :
                Trace(p)[k].flow = "publish" /\ Trace(p)[k].op = "screenshot"

----------------------------------------------------------------------------
(* C19: the scratch file is removed before the text of its post *)

\* the control points of text entry, thread extension and publishing
AfterMediaPcs ==
    {"p_text_click", "p_type", "p_add_next", "p_next_container", "p_publish",
     "p_publish_now", "p_close"}

\* the files the posts 0..i of the list name
TagsUpTo(i) == { TagOf(posts[n]) : n \in { m \in 1..(i + 1) : HasBracket(posts[m]) } }

\* of every tagged post the file is removed right after its preview was seen
\* and right before its text entry begins
RemoveBetweenPreviewAndText(p) ==
    LET T == Trace(p)
    IN  /\ \A k \in Where(p, "publish", "step", "remove") :
               /\ k > 1
               /\ T[k - 1].flow = "publish" /\ T[k - 1].op = "step"
               /\ T[k - 1].what = "preview" /\ T[k - 1].post = T[k].post
               /\ T[k].txt = TagOf(posts[T[k].post + 1])
               /\ IF k = Len(T)
                  THEN proc[p].pc = "p_text_click" /\ proc[p].i = T[k].post
                  ELSE T[k + 1].what = "text_click" /\ T[k + 1].post = T[k].post
        /\ \A k \in 1..Len(T) :
               (T[k].flow = "publish" /\ T[k].what = "text_click"
                  /\ HasBracket(posts[T[k].post + 1]))
                   => StepPos(p, "remove", T[k].post) = k - 1

\* C19 as stated: ... and wherever text entry, thread extension or publishing
\* is in progress, and when a publish run has completed, the downloads
\* directory holds no scratch file.
C19_NoScratchFileAfterMedia ==
    \A p \in active :
        UsesAssetStore(variant) =>
            /\ RemoveBetweenPreviewAndText(p)
            /\ proc[p].pc \in AfterMediaPcs => scratch = {}
            /\ (proc[p].pc = "done" /\ proc[p].reason = "Published") => scratch = {}

\* C19 amended: ... wherever text entry, thread extension or publishing is in
\* progress the directory holds no file of a post processed so far and no
\* file this run added; a file left by an earlier run that aborted stays
\* until a post with that tag is processed. A publish run that completes
\* leaves no file of any of its posts.
C19_NoOwnScratchFileAfterMedia ==
    \A p \in active :
        UsesAssetStore(variant) =>
            /\ RemoveBetweenPreviewAndText(p)
            /\ proc[p].pc \in AfterMediaPcs =>
                   /\ scratch \cap TagsUpTo(proc[p].i) = {}
                   /\ scratch \subseteq proc[p].scratchAtStart
            /\ (proc[p].pc = "done" /\ proc[p].reason = "Published") =>
                   /\ scratch \cap TagsUpTo(Len(posts) - 1) = {}
                   /\ scratch \subseteq proc[p].scratchAtStart

\* two posts with the same tag were published: the file was fetched and
\* removed twice and is not there at the end
C19_Witness ==
    \E p \in active :
        /\ UsesAssetStore(variant)
        /\ Len(posts) >= 2
        /\ HasBracket(posts[1]) /\ HasBracket(posts[2])
        /\ TagOf(posts[1]) = TagOf(posts[2])
        /\ proc[p].pc = "done"
        /\ proc[p].reason = "Published"
        /\ Len(StepsNamed(p, "remove")) >= 2
        /\ scratch = {}

----------------------------------------------------------------------------
(* C20: the scratch file on the failure path of the media stage *)

\* the steps of the media try block that precede  os.remove(image_path)
BeforeCleanup == {"hover", "media_click", "menu_click", "set_files", "preview"}

\* C20: when a step of the media stage of post i that precedes the cleanup
\* raises after the file of post i was downloaded, the run ends (screenshot,
\* exception) with that file still in the downloads directory: no remove has
\* run for post i.
C20_ScratchFileLeftOnMediaFailure ==
    \A p \in active :
        (/\ UsesAssetStore(variant)
         /\ proc[p].pc = "done"
         /\ proc[p].exc = "Exception"
         /\ proc[p].reason \in BeforeCleanup) =>
            LET i == proc[p].i
            IN  /\ StepPos(p, "download", i) > 0
                /\ Trace(p)[StepPos(p, "download", i)].txt = TagOf(posts[i + 1])
                /\ StepPos(p, "remove", i) = 0
                /\ TagOf(posts[i + 1]) \in scratch
                /\ \E k \in 1..Len(Trace(p)) :
                       /\ Trace(p)[k].op \in {"raise_timeout", "raise_error"}
                       /\ Trace(p)[k].what = proc[p].reason
                       /\ Trace(p)[k].post = i
                       /\ k > StepPos(p, "download", i)

\* the preview of the first post never appeared: its file, which was not on
\* disk when the run began, is on disk when the run has ended
C20_Witness ==
    \E p \in active :
        /\ UsesAssetStore(variant)
        /\ proc[p].pc = "done"
        /\ proc[p].reason = "preview"
        /\ proc[p].i = 0
        /\ TagOf(posts[1]) \in scratch
        /\ TagOf(posts[1]) \notin proc[p].scratchAtStart

----------------------------------------------------------------------------
(* C21: who reads and who writes the session file *)

\* the control points of automate_typefully, the pre-flight scan included
PublisherPcs == {"p_drive", "p_preflight"} \cup PublisherUiPcs

\* C21: a step changes the session file only when it is the persist step of
\* perform_login completing, and that happens at most once in a run; no step
\* of automate_typefully (pre-flight scan included, failing or not) and no
\* other step of perform_login changes it; the browser context of a run takes
\* the content of the session file only in the step that opens the
\* publisher's browser, at the start of the publisher.
C21_SessionFileFrame ==
    [][\A p \in active :
         /\ sessionFile' # sessionFile =>
                /\ proc[p].pc = "l_storage_state"
                /\ Appends(p, {"step"})
                /\ proc'[p].events[Len(proc'[p].events)].what = "storage_state"
                /\ sessionFile' = proc[p].ctx
         /\ proc[p].pc \in PublisherPcs => sessionFile' = sessionFile
         /\ proc[p].pc \in (AuthPcs \ {"l_storage_state"}) => sessionFile' = sessionFile
         /\ Cardinality(Where(p, "auth", "step", "storage_state")) <= 1
         /\ (proc[p].pc \in PublisherPcs /\ proc'[p].ctx # proc[p].ctx) =>
                /\ proc[p].pc = "p_open"
                /\ proc'[p].ctx = sessionFile
                /\ ~Happened(p, "publish", "step", "open")
      ]_vars

\* a publish run that loaded the saved session and then failed: the session
\* file is what it was when the run began
C21_Witness ==
    \E p \in active :
        /\ proc[p].sessionAtStart \in Sessions
        /\ Happened(p, "publish", "step", "open")
        /\ proc[p].pc = "done"
        /\ proc[p].exc = "Exception"
        /\ proc[p].ctx = proc[p].sessionAtStart
        /\ sessionFile = proc[p].sessionAtStart

----------------------------------------------------------------------------
(* C22: one post at a time *)

\* the place of a step in the loop body
Rank(what) ==
    CASE what = "container"   -> 0
      [] what = "download"    -> 1
      [] what = "hover"       -> 2
      [] what = "media_click" -> 3
      [] what = "menu_click"  -> 4
      [] what = "set_files"   -> 5
      [] what = "preview"     -> 6
      [] what = "remove"      -> 7
      [] what = "text_click"  -> 8
      [] what = "type"        -> 9
      [] what = "add_next"    -> 10
      [] OTHER                -> 11

\* the positions in the trace of the loop's steps, completed or failed
LoopEvents(p) ==
    { k \in 1..Len(Trace(p)) :
        /\ Trace(p)[k].flow = "publish"
        /\ Trace(p)[k].op \in {"step", "raise_timeout", "raise_error", "download_failed"}
        /\ Trace(p)[k].what \in LoopSteps }

\* C22: the steps of the loop come post by post: a step of post i+1 never
\* precedes a step of post i, and the steps of one post come in the order
\* container, fetch, file chooser, upload confirmation, cleanup, text,
\* 'add next post', each at most once.
C22_StrictlySequential ==
    \A p \in active :
        \A k \in LoopEvents(p) : \A j \in LoopEvents(p) :
            k < j =>
                /\ Trace(p)[k].post <= Trace(p)[j].post
                /\ Trace(p)[k].post = Trace(p)[j].post =>
                       Rank(Trace(p)[k].what) < Rank(Trace(p)[j].what)

\* the body of the second post is being typed after the first, tagged, post
\* went through fetch, attachment, text and 'add next post'
C22_Witness ==
    \E p \in active :
        /\ Len(posts) >= 2
        /\ HasBracket(posts[1])
        /\ proc[p].pc = "p_type"
        /\ proc[p].i = 1
        /\ StepPos(p, "set_files", 0) > 0
        /\ StepPos(p, "type", 0) > StepPos(p, "set_files", 0)
        /\ StepPos(p, "add_next", 0) > StepPos(p, "type", 0)
        /\ StepPos(p, "container", 1) > StepPos(p, "add_next", 0)

----------------------------------------------------------------------------
(* C23, checked under SpecLive *)

\* C23: every run that is inside the Authentication Flow or the Thread
\* Publisher eventually reaches its end (the flow returned, raised or exited).
C23_EveryFlowTerminates ==
    \A p \in Procs : (proc[p].pc \in AuthPcs \cup PublisherPcs) ~> (proc[p].pc = "done")

----------------------------------------------------------------------------
(* C24: the loop fetches what the pre-flight scan checked *)

\* the pre-flight scan has found the file `tag` of post number n in the store
Confirmed(p, n, tag, before) ==
    \E j \in 1..(before - 1) :
        Trace(p)[j] = Ev("publish", "exists", "preflight", n, tag)

\* C24: the scan and the loop agree, post by post, on whether the post has a
\* tag and on the tag; every fetch the loop attempts, every file it hands to
\* the file chooser and every step of a post's media stage comes after the
\* scan found that post's file, under the same tag, in the store.
C24_LoopFetchesWhatPreflightChecked ==
    \A p \in active :
        UsesAssetStore(variant) =>
            /\ \A n \in 1..Len(posts) :
                   /\ PreflightHasTag(posts[n]) = LoopHasTag(posts[n])
                   /\ LoopHasTag(posts[n]) => PreflightTag(posts[n]) = LoopTag(posts[n])
            /\ \A k \in 1..Len(Trace(p)) :
                   (Trace(p)[k].flow = "publish"
                      /\ Trace(p)[k].op \in {"step", "download_failed"}
                      /\ Trace(p)[k].what \in {"download", "set_files", "remove"})
                       => Confirmed(p, Trace(p)[k].post, Trace(p)[k].txt, k)
            /\ \A k \in LoopEvents(p) :
                   Trace(p)[k].what \in MediaSteps \cup {"download"}
                       => \E tag \in Tags : Confirmed(p, Trace(p)[k].post, tag, k)
            /\ proc[p].pc \in {"p_download", "p_hover", "p_media_click", "p_menu_click",
                               "p_set_files", "p_preview", "p_remove"}
                   => Confirmed(p, proc[p].i, LoopTag(posts[proc[p].i + 1]),
                                Len(Trace(p)) + 1)

\* the file of the second post, found by the scan, has been fetched by the loop
C24_Witness ==
    \E p \in active :
        /\ UsesAssetStore(variant)
        /\ StepPos(p, "download", 1) > 0
        /\ Confirmed(p, 1, Trace(p)[StepPos(p, "download", 1)].txt,
                     StepPos(p, "download", 1))
        /\ Trace(p)[StepPos(p, "download", 1)].txt = TagOf(posts[2])

----------------------------------------------------------------------------
(* C25: a store that cannot be asked counts as a store without the file *)

\* the existence check of this run cannot reach the folder: no folder id in
\* the URL, or the query raises
StoreUnreachable(p) == folderUrl = "invalid" \/ proc[p].qerr

\* the pre-flight scan of the current run is over
ScanOver(p) ==
    /\ Happened(p, "publish", "step", "drive_service")
    /\ proc[p].pc # "p_preflight"

\* C25: the existence check raises nothing. In a run whose store cannot be
\* reached and whose list has a tagged post, the scan ends the run at the
\* first tagged post exactly as for a missing file (sys.exit(1), no browser).
\* In a run whose list has no tagged post the store is not asked at all and
\* the run goes on to the publisher's browser session whatever the folder URL.
C25_UnreachableStoreIsMissingAsset ==
    \A p \in active :
        (UsesAssetStore(variant) /\ Happened(p, "publish", "step", "drive_service")) =>
            /\ \A k \in 1..Len(Trace(p)) :
                   Trace(p)[k].what = "preflight"
                       => Trace(p)[k].op \in {"exists", "missing"}
            /\ (StoreUnreachable(p) /\ TaggedPosts # {} /\ ScanOver(p)) =>
                   LET first == CHOOSE n \in TaggedPosts : \A m \in TaggedPosts : n <= m
                   IN  /\ proc[p].pc = "done"
                       /\ proc[p].exc = "SystemExit"
                       /\ proc[p].reason = "AssetMissing"
                       /\ proc[p].exit = 1
                       /\ Happened(p, "publish", "missing", "preflight")
                       /\ \A k \in Where(p, "publish", "missing", "preflight") :
                              /\ Trace(p)[k].post = first - 1
                              /\ Trace(p)[k].txt = PreflightTag(posts[first])
                       /\ ~Happened(p, "publish", "exists", "preflight")
                       /\ ~Happened(p, "publish", "step", "open")
            /\ TaggedPosts = {} =>
                   /\ ~Happened(p, "publish", "exists", "preflight")
                   /\ ~Happened(p, "publish", "missing", "preflight")
                   /\ proc[p].reason # "AssetMissing"
                   /\ ScanOver(p) =>
                          \/ proc[p].pc \in PublisherUiPcs
                          \/ proc[p].pc = "done" /\ proc[p].exc # "SystemExit"

\* a run with a folder URL without folder id and a tagged second post ended
\* as for a missing file
C25_Witness ==
    \E p \in active :
        /\ UsesAssetStore(variant)
        /\ folderUrl = "invalid"
        /\ ~proc[p].qerr
        /\ TaggedPosts # {} /\ 1 \notin TaggedPosts
        /\ proc[p].reason = "AssetMissing"
        /\ Happened(p, "publish", "missing", "preflight")

----------------------------------------------------------------------------
(* C26: nothing makes a run the only writer of the session path *)

\* process p has written the session path in its run
WroteSession(p) == Happened(p, "auth", "step", "storage_state")

\* C26: of two runs started side by side, each one that finds no session
\* file goes into the Authentication Flow whatever the other one does, and
\* its write of the session path is never held back by the other's: a
\* process at the persist step can always take it, and a login that
\* returned has passed that step.
C26_SessionPathHasNoOwner ==
    \A p \in active :
        /\ (proc[p].pc = "m_isfile" /\ sessionFile = NoSession) => ENABLED m_isfile(p)
        /\ Called(p, "perform_login") => proc[p].sessionAtStart = NoSession
        /\ (proc[p].pc \notin {"idle", "m_folder_url", "m_isfile"}
              /\ ~Called(p, "perform_login")) => sessionFile # NoSession
        /\ proc[p].pc = "l_storage_state" => ENABLED l_storage_state(p)
        /\ LoginReturned(p) =>
               \/ WroteSession(p)
               \/ Happened(p, "auth", "step", "storage_state_lost")

\* two writers of one session file: both runs began without a session, both
\* ran the Authentication Flow and both wrote the session path
C26_Witness ==
    /\ \A p \in Procs :
           /\ p \in active
           /\ proc[p].sessionAtStart = NoSession
           /\ Called(p, "perform_login")
           /\ WroteSession(p)
    /\ sessionFile # NoSession

----------------------------------------------------------------------------
(* C27: the fetched file between its download and the file chooser *)

\* process p has fetched the file of its current post and has not yet handed
\* it to the file chooser
HoldsFetchedFile(p) ==
    /\ UsesAssetStore(variant)
    /\ proc[p].pc \in {"p_hover", "p_media_click", "p_menu_click", "p_set_files"}

\* C27: from the moment a publish run has fetched the file of a post until it
\* has supplied it to its file chooser, the file is in the downloads
\* directory: no other run takes it away.
C27_FetchedFileStaysUntilChooser ==
    \A p \in active :
        HoldsFetchedFile(p) => LoopTag(posts[proc[p].i + 1]) \in scratch

----------------------------------------------------------------------------
(* C28: the exit status and the last log line of docker_run *)

\* the failures of a run, read off what happened in it: an exception that no
\* handler inside the flows swallowed, an asset the scan or the loop did not
\* get, or an orchestrator check that failed
RunFailed(p) ==
    \/ \E k \in 1..Len(Trace(p)) :
          \/ /\ Trace(p)[k].op \in {"raise_timeout", "raise_error"}
             /\ ~(Trace(p)[k].op = "raise_timeout"
                    /\ Trace(p)[k].what \in {"opt_fill", "opt_next"})
          \/ Trace(p)[k].op \in {"missing", "download_failed"}
    \/ proc[p].reason \in {"FolderUrlMissing", "AuthFileNotCreated", "CredentialsMissing",
                           "DriveInit", "AssetMissing", "DownloadFailed"}

\* C28: a finished docker_run run has logged "Script finished." as its last
\* line and only there; a run that failed anywhere ended with exit status 1;
\* a run that ended with exit status 0 clicked both publish controls.
C28_ExitStatusAndLastLine ==
    \A p \in active :
        (variant = "docker_run" /\ Finished(p)) =>
            LET T == Trace(p)
            IN  /\ Len(T) > 0
                /\ T[Len(T)] = Ev("main", "log", "Script finished.", -1, <<>>)
                /\ \A k \in 1..(Len(T) - 1) : T[k].what # "Script finished."
                /\ proc[p].exit \in {0, 1}
                /\ RunFailed(p) => proc[p].exit = 1
                /\ proc[p].exit = 0 =>
                       /\ Happened(p, "publish", "step", "publish")
                       /\ Happened(p, "publish", "step", "publish_now")
                       /\ ~RunFailed(p)

\* a docker_run run that clicked 'Publish' and failed at 'Publish now' ended
\* with exit status 1
C28_Witness ==
    \E p \in active :
        /\ variant = "docker_run" /\ Finished(p)
        /\ Happened(p, "publish", "step", "publish")
        /\ Happened(p, "publish", "raise_error", "publish_now")
        /\ proc[p].exit = 1

====
